---- MODULE Spec2Model ----
(***************************************************************************)
(* Verification model of the OOP demonstration programs:                   *)
(*   - the BankAccount class (src/abstraction/1_abstraction.cpp),          *)
(*   - the three Shape hierarchies and their drivers                       *)
(*     (src/unnamed/part_002, src/inheritance/6_AbstractClass.cpp),        *)
(*   - the Employee, Rectangle and Complex classes, the lifetime programs  *)
(*     (destructors, virtual diamond, Car and Engine), the hybrid          *)
(*     inheritance, the Printer overloads and the friends.                 *)
(* A C++ double is modelled as a small binary floating-point format with   *)
(* round-to-nearest-even, overflow to infinity and NaN; its precision and  *)
(* exponent range are the bounds MantBits and MaxExp.                      *)
(***************************************************************************)
EXTENDS Integers, Sequences, FiniteSets, TLC

----------------------------------------------------------------------------
(* Bounds *)

MantBits == 2
MaxExp == 2
MaxObjects == 2
MaxCalls == 2
IntBits == 3

----------------------------------------------------------------------------
(* State *)

VARIABLES
    balance,    \* BankAccount::balance
    bankOp,     \* the last BankAccount call: operation, argument, result, balance before
    bankCalls,  \* the BankAccount calls so far, the constructor first: operation, argument, result
    objs,       \* the Shape objects made by a client: handle -> object
    lastEv,     \* the last thing the client did: a creation attempt or a virtual call
    pinned,     \* one earlier virtual call (handle, operation, implementation), kept for comparison
    mainHeap,   \* the objects of the three main() programs: name -> object
    shapes,     \* the vector<Shape*> of each main()
    pc,         \* the position of each main()
    iv,         \* the index of the range-for of each main()
    jv,         \* the index of the inner range-for of each main()
    exit,       \* the exit status of each main(), -1 while it runs
    trace,      \* the transcript of each main(): constructor, call, output, destructor events
    empName,    \* Employee::name
    employeeID, \* Employee::employeeID
    salary,     \* Employee::salary
    empOp,      \* the last Employee call: operation, arguments, result, members before
    length,     \* Rectangle::length
    breadth,    \* Rectangle::breadth
    rectOp,     \* the last Rectangle call: operation, arguments, result, members before
    lifeObjs,   \* the objects of the lifetime programs: name -> class, state, members
    lifeHeap,   \* the live blocks of the free store of the lifetime programs
    lifePc,     \* the statement each lifetime program is at
    lifeTodo,   \* the rest of the constructor or destructor chain under way in each
    lifeExit,   \* the exit status of each lifetime program, -1 while it runs
    lifeTrace,  \* the transcript of each: constructor, destructor, call, output events
    cplx,       \* the Complex objects c1, c2, c3: real, imag
    cplxOp,     \* the last Complex call: operation, operands, operands before, output
    ta,         \* the TeachingAssistant of the hybrid inheritance: subobject -> members
    taOp,       \* the last thing done with it: operation, subobject, member, value, object before
    printed,    \* the calls of Printer::print so far: argument, overload run, line printed
    myCar,      \* the Car of 4_friend_class.cpp: fuel
    box,        \* the SecretBox of main: secretCode
    friendLog   \* the calls of the friends so far: function, line printed

bankVars == <<balance, bankOp, bankCalls>>
objVars == <<objs, lastEv, pinned>>
mainVars == <<mainHeap, shapes, pc, iv, jv, exit, trace>>
empVars == <<empName, employeeID, salary, empOp>>
rectVars == <<length, breadth, rectOp>>
lifeVars == <<lifeObjs, lifeHeap, lifePc, lifeTodo, lifeExit, lifeTrace>>
cplxVars == <<cplx, cplxOp>>
hybridVars == <<ta, taOp>>
printVars == <<printed>>
friendVars == <<myCar, box, friendLog>>
lateVars == <<hybridVars, printVars, friendVars>>
earlyVars == <<bankVars, objVars, mainVars, empVars, rectVars, lifeVars, cplxVars>>
moreVars == <<empVars, rectVars, lifeVars, cplxVars, lateVars>>
vars == <<balance, bankOp, bankCalls, objs, lastEv, pinned, mainHeap, shapes, pc, iv, jv, exit, trace,
          moreVars>>

----------------------------------------------------------------------------
(* double: values, rounding, arithmetic and comparisons *)

RECURSIVE Pow2(_)
Pow2(n) == IF n <= 0 THEN 1 ELSE 2 * Pow2(n - 1)

MaxFinite == (Pow2(MantBits) - 1) * Pow2(MaxExp)

Fin(x) == [k |-> "fin", v |-> x]
PInf == [k |-> "inf", v |-> 1]
NInf == [k |-> "inf", v |-> -1]
NaN == [k |-> "nan", v |-> 0]
Zero == Fin(0)

\* the non-negative finite values of the format
RepSet == {m * Pow2(e) : m \in 0..(Pow2(MantBits) - 1), e \in 0..MaxExp}

IsRep(x) == (x \in RepSet) \/ ((0 - x) \in RepSet)

Doubles == {Fin(x) : x \in RepSet} \cup {Fin(0 - x) : x \in RepSet} \cup {PInf, NInf, NaN}

\* exponent of the binade of a magnitude x
ExpOf(x) == IF x > MaxFinite THEN MaxExp
            ELSE CHOOSE e \in 0..MaxExp :
                   /\ x < Pow2(MantBits + e)
                   /\ \A f \in 0..MaxExp : x < Pow2(MantBits + f) => e <= f

\* round a magnitude to the nearest value of the format, ties to even
RoundMag(x) ==
    LET ulp == Pow2(ExpOf(x))
        m == x \div ulp
        r == x % ulp
    IN  IF 2 * r < ulp THEN m * ulp
        ELSE IF 2 * r > ulp THEN (m + 1) * ulp
        ELSE IF m % 2 = 0 THEN m * ulp ELSE (m + 1) * ulp

RoundF(x) ==
    LET mag == IF x < 0 THEN 0 - x ELSE x
        sgn == IF x < 0 THEN -1 ELSE 1
        rm == RoundMag(mag)
    IN  IF rm > MaxFinite THEN [k |-> "inf", v |-> sgn] ELSE Fin(sgn * rm)

FNeg(a) == [k |-> a.k, v |-> 0 - a.v]

FAdd(a, b) ==
    IF a.k = "nan" \/ b.k = "nan" THEN NaN
    ELSE IF a.k = "inf" /\ b.k = "inf" THEN (IF a.v = b.v THEN a ELSE NaN)
    ELSE IF a.k = "inf" THEN a
    ELSE IF b.k = "inf" THEN b
    ELSE RoundF(a.v + b.v)

FSub(a, b) == FAdd(a, FNeg(b))

\* position of a non-NaN value on the extended number line
Key(a) == IF a.k = "inf" THEN a.v * (MaxFinite + Pow2(MaxExp)) ELSE a.v

FGt(a, b) == a.k # "nan" /\ b.k # "nan" /\ Key(a) > Key(b)
FGe(a, b) == a.k # "nan" /\ b.k # "nan" /\ Key(a) >= Key(b)
FLe(a, b) == a.k # "nan" /\ b.k # "nan" /\ Key(a) <= Key(b)
FLt(a, b) == a.k # "nan" /\ b.k # "nan" /\ Key(a) < Key(b)

----------------------------------------------------------------------------
(* The Shape hierarchies: class tables, vtables, construction, calls *)

\* "iface":    Shape / Circle / Rectangle with pure virtual area and getName
\* "render":   Shape / Circle / Square with a virtual draw and render(Shape*)
\* "abstract": Shape / Circle / Square (/ IncompleteShape) with pure virtual draw
Hierarchies == {"iface", "render", "abstract"}

ClassTable ==
    [iface |->
        [Shape     |-> [parent |-> "", pure |-> {"area", "getName"}, impl |-> {"draw"}],
         Circle    |-> [parent |-> "Shape", pure |-> {}, impl |-> {"area", "getName"}],
         Rectangle |-> [parent |-> "Shape", pure |-> {}, impl |-> {"area", "getName"}]],
     render |->
        [Shape  |-> [parent |-> "", pure |-> {}, impl |-> {"draw"}],
         Circle |-> [parent |-> "Shape", pure |-> {}, impl |-> {"draw"}],
         Square |-> [parent |-> "Shape", pure |-> {}, impl |-> {"draw"}]],
     abstract |->
        [Shape           |-> [parent |-> "", pure |-> {"draw"}, impl |-> {"displayColor"}],
         Circle          |-> [parent |-> "Shape", pure |-> {}, impl |-> {"draw"}],
         Square          |-> [parent |-> "Shape", pure |-> {}, impl |-> {"draw"}],
         IncompleteShape |-> [parent |-> "Shape", pure |-> {}, impl |-> {}]]]

ClassNames(h) == DOMAIN ClassTable[h]

Parent(h, n) == ClassTable[h][n].parent

\* the virtual functions of a hierarchy
Ops(h) == UNION {ClassTable[h][n].pure \cup ClassTable[h][n].impl : n \in ClassNames(h)}

\* the base-to-derived chain of a class
RECURSIVE Chain(_, _)
Chain(h, n) == IF Parent(h, n) = "" THEN <<n>> ELSE Append(Chain(h, Parent(h, n)), n)

NoImpl == [cls |-> "", kind |-> "none"]

\* the final overrider of op in class n: the nearest declaration from n upwards
RECURSIVE ResolveBug(_, _, _)
ResolveBug(h, n, op) ==
    IF Parent(h, n) # "" /\ ResolveBug(h, Parent(h, n), op) # NoImpl
    THEN ResolveBug(h, Parent(h, n), op)
    ELSE IF op \in ClassTable[h][n].impl THEN [cls |-> n, kind |-> "impl"]
    ELSE IF op \in ClassTable[h][n].pure THEN [cls |-> n, kind |-> "pure"]
    ELSE NoImpl

ResolveOwn(h, n, op) ==
    IF op \in ClassTable[h][n].impl THEN [cls |-> n, kind |-> "impl"]
    ELSE IF op \in ClassTable[h][n].pure THEN [cls |-> n, kind |-> "pure"]
    ELSE NoImpl

RECURSIVE Resolve(_, _, _)
Resolve(h, n, op) ==
    IF op \in ClassTable[h][n].impl THEN [cls |-> n, kind |-> "impl"]
    ELSE IF op \in ClassTable[h][n].pure THEN [cls |-> n, kind |-> "pure"]
    ELSE IF Parent(h, n) = "" THEN NoImpl
    ELSE Resolve(h, Parent(h, n), op)

\* the vtables of all classes
VTables ==
    [h \in Hierarchies |->
        [n \in ClassNames(h) |-> [op \in Ops(h) |-> Resolve(h, n, op)]]]

VTable(h, n) == VTables[h][n]

\* a class with a pure virtual final overrider cannot be instantiated
IsAbstractBug(h, n) == ClassTable[h][n].pure # {}

IsAbstract(h, n) == \E op \in Ops(h) : VTable(h, n)[op].kind = "pure"

\* object values: members default to 0 / "" until a constructor sets them
NoFields == [radius |-> 0, width |-> 0, height |-> 0, side |-> 0, color |-> ""]

NoObj == [phase |-> "none", h |-> "", cls |-> "", vptr |-> "", args |-> NoFields, f |-> NoFields]
DeadObj == [phase |-> "dead", h |-> "", cls |-> "", vptr |-> "", args |-> NoFields, f |-> NoFields]

\* constructor arguments: doubles with integer values, strings
Radii == {2, 5, 10}
Colors == {"Red", "Blue"}

CtorArgs(h, n) ==
    IF h = "iface" /\ n = "Circle" THEN {[NoFields EXCEPT !.radius = r] : r \in Radii}
    ELSE IF h = "iface" /\ n = "Rectangle" THEN {[NoFields EXCEPT !.width = 5, !.height = 8]}
    ELSE IF h = "abstract" /\ n = "Circle"
         THEN {[NoFields EXCEPT !.radius = 5, !.color = c] : c \in Colors}
    ELSE IF h = "abstract" /\ n = "Square"
         THEN {[NoFields EXCEPT !.side = 7, !.color = c] : c \in Colors}
    ELSE {NoFields}

\* the member initialisers run by the constructor of class n
CtorBody(h, n, f, args) ==
    IF h = "iface" /\ n = "Circle" THEN [f EXCEPT !.radius = args.radius]
    ELSE IF h = "iface" /\ n = "Rectangle"
         THEN [f EXCEPT !.width = args.width, !.height = args.height]
    ELSE IF h = "abstract" /\ n = "Shape" THEN [f EXCEPT !.color = args.color]
    ELSE IF h = "abstract" /\ n = "Circle" THEN [f EXCEPT !.radius = args.radius]
    ELSE IF h = "abstract" /\ n = "Square" THEN [f EXCEPT !.side = args.side]
    ELSE f

\* the class constructed after cur on the way down to n
NextDown(h, n, cur) ==
    LET ch == Chain(h, n)
        i == CHOOSE j \in 1..Len(ch) : ch[j] = cur
    IN  ch[i + 1]

\* entering the constructor chain: the root class's constructor runs first and
\* the vptr names the vtable of the class whose constructor has run last
CtorBegin(h, n, args) ==
    LET root == Chain(h, n)[1]
    IN  [phase |-> IF root = n THEN "alive" ELSE "ctor", h |-> h, cls |-> n,
         vptr |-> root, args |-> args, f |-> CtorBody(h, root, NoFields, args)]

CtorNext(obj) ==
    LET c == NextDown(obj.h, obj.cls, obj.vptr)
    IN  [obj EXCEPT !.phase = IF c = obj.cls THEN "alive" ELSE "ctor",
                    !.vptr = c, !.f = CtorBody(obj.h, c, obj.f, obj.args)]

\* leaving through the destructor chain, most derived class first
DtorNext(obj) ==
    IF Parent(obj.h, obj.vptr) = "" THEN DeadObj
    ELSE [obj EXCEPT !.phase = "dtor", !.vptr = Parent(obj.h, obj.vptr)]

\* events of a transcript
Ev(kind, hd, cls, op) ==
    [ev |-> kind, obj |-> hd, cls |-> cls, op |-> op, text |-> "", num |-> 0]
Out(hd, text) == [ev |-> "out", obj |-> hd, cls |-> "", op |-> "", text |-> text, num |-> 0]
OutNum(hd, n) == [ev |-> "outnum", obj |-> hd, cls |-> "", op |-> "", text |-> "", num |-> n]

\* doubles of the shapes are kept in units of 1/AreaScale
PiE5 == 314159
AreaScale == 100000

NoRet == [num |-> 0, str |-> ""]

\* a virtual call p->op(): the vptr of the object selects the vtable
DispatchBug(obj, op) == Resolve(obj.h, Chain(obj.h, obj.cls)[1], op)

\* one vptr shared by all objects of a hierarchy: the class created last decides
DispatchShared(obj, op) ==
    IF lastEv.kind = "create" /\ lastEv.outcome = "created" /\ lastEv.h = obj.h
    THEN Resolve(obj.h, lastEv.cls, op)
    ELSE VTable(obj.h, obj.vptr)[op]

\* the vtable of the object's class from the first constructor on
DispatchMostDerived(obj, op) == VTable(obj.h, obj.cls)[op]

Dispatch(obj, op) == VTable(obj.h, obj.vptr)[op]

CircleAreaBug(radius) == 2 * PiE5 * radius

CircleArea(radius) == PiE5 * radius * radius

RECURSIVE Call(_, _, _)
\* the body of the implementation of op defined in class c, run on obj
Body(hd, obj, c, op) ==
    LET h == obj.h
        entry == <<Ev("call", hd, c, op)>>
    IN
    IF h = "iface" /\ c = "Shape" /\ op = "draw" THEN
        LET nm == Call(hd, obj, "getName")
            ar == Call(hd, obj, "area")
        IN  [ret |-> NoRet, ok |-> nm.ok /\ ar.ok,
             evs |-> entry \o <<Out(hd, "Drawing a ")>> \o nm.evs \o <<Out(hd, nm.ret.str)>>
                     \o <<Out(hd, " with area ")>> \o ar.evs \o <<OutNum(hd, ar.ret.num)>>]
    ELSE IF h = "iface" /\ c = "Circle" /\ op = "area" THEN
        [ret |-> [num |-> CircleArea(obj.f.radius), str |-> ""], ok |-> TRUE,
         evs |-> entry \o <<Out(hd, "drawing a circle")>>]
    ELSE IF h = "iface" /\ c = "Circle" /\ op = "getName" THEN
        [ret |-> [num |-> 0, str |-> "Circle"], ok |-> TRUE,
         evs |-> entry \o <<Out(hd, "circle")>>]
    ELSE IF h = "iface" /\ c = "Rectangle" /\ op = "area" THEN
        [ret |-> [num |-> obj.f.width * obj.f.height * AreaScale, str |-> ""], ok |-> TRUE,
         evs |-> entry]
    ELSE IF h = "iface" /\ c = "Rectangle" /\ op = "getName" THEN
        [ret |-> [num |-> 0, str |-> "Rectangle"], ok |-> TRUE, evs |-> entry]
    ELSE IF h = "render" /\ c = "Shape" /\ op = "draw" THEN
        [ret |-> NoRet, ok |-> TRUE, evs |-> entry \o <<Out(hd, "Drawing a generic shape.")>>]
    ELSE IF h = "render" /\ c = "Circle" /\ op = "draw" THEN
        [ret |-> NoRet, ok |-> TRUE, evs |-> entry \o <<Out(hd, "Drawing a circle.")>>]
    ELSE IF h = "render" /\ c = "Square" /\ op = "draw" THEN
        [ret |-> NoRet, ok |-> TRUE, evs |-> entry \o <<Out(hd, "Drawing a square.")>>]
    ELSE IF h = "abstract" /\ c = "Shape" /\ op = "displayColor" THEN
        [ret |-> NoRet, ok |-> TRUE,
         evs |-> entry \o <<Out(hd, "Color: ")>> \o <<Out(hd, obj.f.color)>>]
    ELSE IF h = "abstract" /\ c = "Circle" /\ op = "draw" THEN
        LET dc == Call(hd, obj, "displayColor")
        IN  [ret |-> NoRet, ok |-> dc.ok,
             evs |-> entry \o <<Out(hd, "Drawing a Circle with radius ")>>
                     \o <<OutNum(hd, obj.f.radius * AreaScale)>> \o <<Out(hd, ". ")>> \o dc.evs]
    ELSE IF h = "abstract" /\ c = "Square" /\ op = "draw" THEN
        LET dc == Call(hd, obj, "displayColor")
        IN  [ret |-> NoRet, ok |-> dc.ok,
             evs |-> entry \o <<Out(hd, "Drawing a Square with side ")>>
                     \o <<OutNum(hd, obj.f.side * AreaScale)>> \o <<Out(hd, ". ")>> \o dc.evs]
    ELSE [ret |-> NoRet, ok |-> FALSE, evs |-> <<Ev("unresolved", hd, c, op)>>]

\* a call that finds no implementation (a pure or missing slot) is an UnresolvedOperation
Call(hd, obj, op) ==
    LET slot == Dispatch(obj, op)
    IN  IF slot.kind = "impl" THEN Body(hd, obj, slot.cls, op)
        ELSE [ret |-> NoRet, ok |-> FALSE, evs |-> <<Ev("unresolved", hd, slot.cls, op)>>]

----------------------------------------------------------------------------
(* A client of the Shape classes: it creates objects of any class of the    *)
(* three hierarchies, calls their virtual functions through Shape*, passes  *)
(* them to render and deletes them, one statement at a time.                *)

Handles == 1..MaxObjects

NoEv == [kind |-> "none", o |-> 0, h |-> "", cls |-> "", f |-> NoFields, op |-> "",
         outcome |-> "", impl |-> "", ret |-> NoRet, evs |-> <<>>]

NoPin == [o |-> 0, op |-> "", impl |-> "", made |-> 0]

InitObjs ==
    /\ objs = [o \in Handles |-> NoObj]
    /\ lastEv = NoEv
    /\ pinned = NoPin

\* the number of objects created so far
Made == Cardinality({o \in Handles : objs[o].phase # "none"})

Pin(o, op, impl) == [o |-> o, op |-> op, impl |-> impl, made |-> Made]

Busy(o) == objs[o].phase \in {"ctor", "dtor"}
Quiet == \A o \in Handles : ~Busy(o)
FreeSlots == {o \in Handles : objs[o].phase = "none"}

\* T x(args) / new T(args): rejected for an abstract class, else the
\* constructor chain starts on a fresh object
New(h, n, args) ==
    /\ Quiet
    /\ IF IsAbstract(h, n)
       THEN /\ objs' = objs
            /\ lastEv' = [NoEv EXCEPT !.kind = "create", !.h = h, !.cls = n,
                                      !.outcome = "AbstractInstantiation"]
       ELSE /\ FreeSlots # {}
            /\ LET o == CHOOSE x \in FreeSlots : \A y \in FreeSlots : x <= y
               IN  /\ objs' = [objs EXCEPT ![o] = CtorBegin(h, n, args)]
                   /\ lastEv' = [NoEv EXCEPT !.kind = "create", !.o = o, !.h = h, !.cls = n,
                                             !.outcome = "created"]
    /\ UNCHANGED <<pinned, bankVars, mainVars, moreVars>>

\* the next constructor of the chain runs
Construct(o) ==
    /\ objs[o].phase = "ctor"
    /\ objs' = [objs EXCEPT ![o] = CtorNext(objs[o])]
    /\ UNCHANGED <<lastEv, pinned, bankVars, mainVars, moreVars>>

CallRecord(kind, o, op) ==
    LET r == Call(o, objs[o], op)
    IN  [kind |-> kind, o |-> o, h |-> objs[o].h, cls |-> objs[o].cls, f |-> objs[o].f, op |-> op,
         outcome |-> IF r.ok THEN "ok" ELSE "UnresolvedOperation",
         impl |-> Dispatch(objs[o], op).cls, ret |-> r.ret, evs |-> r.evs]

\* shapePtr->op()
Invoke(o, op) ==
    /\ Quiet
    /\ objs[o].phase = "alive"
    /\ op \in Ops(objs[o].h)
    /\ lastEv' = CallRecord("call", o, op)
    /\ pinned' \in IF pinned.o = 0
                   THEN {pinned, Pin(o, op, lastEv'.impl)}
                   ELSE {pinned}
    /\ UNCHANGED <<objs, bankVars, mainVars, moreVars>>

\* void render(Shape* shapePtr)
render(o) ==
    /\ Quiet
    /\ objs[o].phase = "alive"
    /\ objs[o].h = "render"
    /\ lastEv' = CallRecord("render", o, "draw")
    /\ pinned' \in IF pinned.o = 0
                   THEN {pinned, Pin(o, "draw", lastEv'.impl)}
                   ELSE {pinned}
    /\ UNCHANGED <<objs, bankVars, mainVars, moreVars>>

\* delete shapePtr / end of scope: the destructor of the most derived class runs
Delete(o) ==
    /\ Quiet
    /\ objs[o].phase = "alive"
    /\ objs' = [objs EXCEPT ![o] = DtorNext(objs[o])]
    /\ UNCHANGED <<lastEv, pinned, bankVars, mainVars, moreVars>>

\* the next destructor of the chain runs
Destruct(o) ==
    /\ objs[o].phase = "dtor"
    /\ objs' = [objs EXCEPT ![o] = DtorNext(objs[o])]
    /\ UNCHANGED <<lastEv, pinned, bankVars, mainVars, moreVars>>

NextObjs ==
    \/ \E h \in Hierarchies : \E n \in ClassNames(h) : \E args \in CtorArgs(h, n) : New(h, n, args)
    \/ \E o \in Handles : Construct(o)
    \/ \E o \in Handles : \E op \in {"area", "getName", "draw", "displayColor"} : Invoke(o, op)
    \/ \E o \in Handles : render(o)
    \/ \E o \in Handles : Delete(o)
    \/ \E o \in Handles : Destruct(o)

----------------------------------------------------------------------------
(* The three main() programs, one statement (or constructor / destructor   *)
(* of a chain) per step.  The programs are independent processes.          *)

Mains == Hierarchies

Names == {"new1", "new2", "new3", "s", "c", "sq", "circle1", "square1"}

St(kind, hd, cls, args, text, body, next, nstep) ==
    [kind |-> kind, hd |-> hd, cls |-> cls, args |-> args, text |-> text,
     body |-> body, next |-> next, nstep |-> nstep]

\* the two loops in the other order: the shapes are deleted and then drawn
MainIfaceDrawAfterDelete ==
    [l \in {67, 68, 69, 70, 73, 74, 78, 79, 82} |->
        CASE l = 67 -> St("vector", "", "", NoFields, "", 0, 68, "")
          [] l = 68 -> St("new", "new1", "Circle", [NoFields EXCEPT !.radius = 10], "", 0, 69, "")
          [] l = 69 -> St("new", "new2", "Rectangle",
                          [NoFields EXCEPT !.width = 5, !.height = 8], "", 0, 70, "")
          [] l = 70 -> St("new", "new3", "Circle", [NoFields EXCEPT !.radius = 2], "", 0, 78, "")
          [] l = 73 -> St("for", "", "", NoFields, "i", 74, 82, "")
          [] l = 74 -> St("draw", "", "", NoFields, "", 0, 73, "incr")
          [] l = 78 -> St("for", "", "", NoFields, "j", 79, 73, "")
          [] l = 79 -> St("delete", "", "", NoFields, "", 0, 78, "incr")
          [] l = 82 -> St("return", "", "", NoFields, "", 0, 84, "")]

\* main of the pure-interface Shape program, as its braces nest: the range-for
\* opened on line 73 is closed on line 83, so the delete loop and the return
\* are part of its body
MainIface ==
    [l \in {67, 68, 69, 70, 73, 74, 78, 79, 82} |->
        CASE l = 67 -> St("vector", "", "", NoFields, "", 0, 68, "")
          [] l = 68 -> St("new", "new1", "Circle", [NoFields EXCEPT !.radius = 10], "", 0, 69, "")
          [] l = 69 -> St("new", "new2", "Rectangle",
                          [NoFields EXCEPT !.width = 5, !.height = 8], "", 0, 70, "")
          [] l = 70 -> St("new", "new3", "Circle", [NoFields EXCEPT !.radius = 2], "", 0, 73, "")
          [] l = 73 -> St("for", "", "", NoFields, "i", 74, 84, "")
          [] l = 74 -> St("draw", "", "", NoFields, "", 0, 78, "")
          [] l = 78 -> St("for", "", "", NoFields, "j", 79, 82, "")
          [] l = 79 -> St("delete", "", "", NoFields, "", 0, 78, "incr")
          [] l = 82 -> St("return", "", "", NoFields, "", 0, 84, "")]

\* main of the render program
MainRender ==
    [l \in {125, 126, 127, 129, 130, 132, 133, 135, 136, 138} |->
        CASE l = 125 -> St("decl", "s", "Shape", NoFields, "", 0, 126, "")
          [] l = 126 -> St("decl", "c", "Circle", NoFields, "", 0, 127, "")
          [] l = 127 -> St("decl", "sq", "Square", NoFields, "", 0, 129, "")
          [] l = 129 -> St("cout", "", "", NoFields,
                           "Calling render with a Shape pointer to a Shape object:", 0, 130, "")
          [] l = 130 -> St("render", "s", "", NoFields, "", 0, 132, "")
          [] l = 132 -> St("cout", "", "", NoFields,
                           "Calling render with a Shape pointer to a Circle object:", 0, 133, "")
          [] l = 133 -> St("render", "c", "", NoFields, "", 0, 135, "")
          [] l = 135 -> St("cout", "", "", NoFields,
                           "Calling render with a Shape pointer to a Square object:", 0, 136, "")
          [] l = 136 -> St("render", "sq", "", NoFields, "", 0, 138, "")
          [] l = 138 -> St("return", "", "", NoFields, "", 0, 139, "")]

\* main of the abstract Shape program
MainAbstract ==
    [l \in {55, 56, 59, 60, 61, 63, 64, 73} |->
        CASE l = 55 -> St("decl", "circle1", "Circle",
                          [NoFields EXCEPT !.radius = 5, !.color = "Red"], "", 0, 56, "")
          [] l = 56 -> St("decl", "square1", "Square",
                          [NoFields EXCEPT !.side = 7, !.color = "Blue"], "", 0, 59, "")
          [] l = 59 -> St("vector", "", "", NoFields, "", 0, 60, "")
          [] l = 60 -> St("push", "circle1", "", NoFields, "", 0, 61, "")
          [] l = 61 -> St("push", "square1", "", NoFields, "", 0, 63, "")
          [] l = 63 -> St("for", "", "", NoFields, "i", 64, 73, "")
          [] l = 64 -> St("draw", "", "", NoFields, "", 0, 63, "incr")
          [] l = 73 -> St("return", "", "", NoFields, "", 0, 74, "")]

Program(d) == IF d = "iface" THEN MainIface ELSE IF d = "render" THEN MainRender ELSE MainAbstract

FirstLine(d) == IF d = "iface" THEN 67 ELSE IF d = "render" THEN 125 ELSE 55

\* the automatic objects of main, in declaration order
Locals(d) ==
    IF d = "render" THEN <<"s", "c", "sq">>
    ELSE IF d = "abstract" THEN <<"circle1", "square1">>
    ELSE <<>>

InitMain ==
    /\ mainHeap = [n \in Names |-> NoObj]
    /\ shapes = [d \in Mains |-> <<>>]
    /\ pc = [d \in Mains |-> [line |-> FirstLine(d), step |-> ""]]
    /\ iv = [d \in Mains |-> 0]
    /\ jv = [d \in Mains |-> 0]
    /\ exit = [d \in Mains |-> -1]
    /\ trace = [d \in Mains |-> <<>>]

Running(d) == pc[d].line \in DOMAIN Program(d)
Cur(d) == Program(d)[pc[d].line]
At(d, kinds, step) == Running(d) /\ Cur(d).kind \in kinds /\ pc[d].step = step

Goto(d, line, step) == pc' = [pc EXCEPT ![d] = [line |-> line, step |-> step]]
Log(d, evs) == trace' = [trace EXCEPT ![d] = @ \o evs]

\* the output of the destructor of class c
DtorBody(h, c, hd) ==
    <<Ev("dtor", hd, c, "")>>
    \o (IF h = "iface" /\ c = "Shape" THEN <<Out(hd, "Shape destructor called.")>> ELSE <<>>)

\* vector<Shape*> shapes;
StmtVector(d) ==
    /\ At(d, {"vector"}, "")
    /\ shapes' = [shapes EXCEPT ![d] = <<>>]
    /\ Goto(d, Cur(d).next, "")
    /\ UNCHANGED <<mainHeap, iv, jv, exit, trace, bankVars, objVars, moreVars>>

\* T x(args); and new T(args): the first constructor of the chain
StmtNew(d) ==
    /\ At(d, {"new", "decl"}, "")
    /\ LET st == Cur(d)
           obj == CtorBegin(d, st.cls, st.args)
       IN  /\ mainHeap' = [mainHeap EXCEPT ![st.hd] = obj]
           /\ Log(d, <<Ev("ctor", st.hd, obj.vptr, "")>>)
           /\ IF obj.phase = "ctor" THEN Goto(d, pc[d].line, "ctor")
              ELSE IF st.kind = "new" THEN Goto(d, pc[d].line, "push")
              ELSE Goto(d, st.next, "")
    /\ UNCHANGED <<shapes, iv, jv, exit, bankVars, objVars, moreVars>>

\* the next constructor of the chain
StmtCtor(d) ==
    /\ At(d, {"new", "decl"}, "ctor")
    /\ LET st == Cur(d)
           obj == CtorNext(mainHeap[st.hd])
       IN  /\ mainHeap' = [mainHeap EXCEPT ![st.hd] = obj]
           /\ Log(d, <<Ev("ctor", st.hd, obj.vptr, "")>>)
           /\ IF obj.phase = "ctor" THEN Goto(d, pc[d].line, "ctor")
              ELSE IF st.kind = "new" THEN Goto(d, pc[d].line, "push")
              ELSE Goto(d, st.next, "")
    /\ UNCHANGED <<shapes, iv, jv, exit, bankVars, objVars, moreVars>>

\* shapes.push_back(p)
StmtPush(d) ==
    /\ At(d, {"new"}, "push") \/ At(d, {"push"}, "")
    /\ shapes' = [shapes EXCEPT ![d] = Append(@, Cur(d).hd)]
    /\ Goto(d, Cur(d).next, "")
    /\ UNCHANGED <<mainHeap, iv, jv, exit, trace, bankVars, objVars, moreVars>>

\* cout << text << endl;
StmtCout(d) ==
    /\ At(d, {"cout"}, "")
    /\ Log(d, <<Out("", Cur(d).text)>>)
    /\ Goto(d, Cur(d).next, "")
    /\ UNCHANGED <<mainHeap, shapes, iv, jv, exit, bankVars, objVars, moreVars>>

\* a virtual call on an object that is not alive is undefined behaviour
CallOn(hd, op) ==
    IF mainHeap[hd].phase = "alive" THEN Call(hd, mainHeap[hd], op).evs
    ELSE <<Ev("ub", hd, "", op)>>

\* render(&x);
StmtRender(d) ==
    /\ At(d, {"render"}, "")
    /\ Log(d, <<Ev("render", Cur(d).hd, "", "")>> \o CallOn(Cur(d).hd, "draw"))
    /\ Goto(d, Cur(d).next, "")
    /\ UNCHANGED <<mainHeap, shapes, iv, jv, exit, bankVars, objVars, moreVars>>

IndexOf(d) == IF Cur(d).text = "j" THEN jv[d] ELSE iv[d]

SetIndex(d, x) ==
    IF Cur(d).text = "j"
    THEN jv' = [jv EXCEPT ![d] = x] /\ iv' = iv
    ELSE iv' = [iv EXCEPT ![d] = x] /\ jv' = jv

\* for (Shape* shapePtr : shapes): entering the loop
ForEnter(d) ==
    /\ At(d, {"for"}, "")
    /\ SetIndex(d, 1)
    /\ IF 1 <= Len(shapes[d]) THEN Goto(d, Cur(d).body, "") ELSE Goto(d, Cur(d).next, "")
    /\ UNCHANGED <<mainHeap, shapes, exit, trace, bankVars, objVars, moreVars>>

\* for (Shape* shapePtr : shapes): the next element after the end of the body
ForNext(d) ==
    /\ At(d, {"for"}, "incr")
    /\ SetIndex(d, IndexOf(d) + 1)
    /\ IF IndexOf(d) + 1 <= Len(shapes[d])
       THEN Goto(d, Cur(d).body, "") ELSE Goto(d, Cur(d).next, "")
    /\ UNCHANGED <<mainHeap, shapes, exit, trace, bankVars, objVars, moreVars>>

\* shapePtr->draw();
StmtDraw(d) ==
    /\ At(d, {"draw"}, "")
    /\ Log(d, CallOn(shapes[d][iv[d]], "draw"))
    /\ Goto(d, Cur(d).next, Cur(d).nstep)
    /\ UNCHANGED <<mainHeap, shapes, iv, jv, exit, bankVars, objVars, moreVars>>

\* delete shapePtr; the virtual destructor starts the chain at the most derived class
StmtDelete(d) ==
    /\ At(d, {"delete"}, "")
    /\ LET hd == shapes[d][jv[d]]
           obj == mainHeap[hd]
       IN  IF obj.phase = "alive"
           THEN /\ mainHeap' = [mainHeap EXCEPT ![hd] = DtorNext(obj)]
                /\ Log(d, <<Ev("delete", hd, "", "")>> \o DtorBody(d, obj.vptr, hd))
                /\ IF DtorNext(obj) = DeadObj THEN Goto(d, Cur(d).next, Cur(d).nstep)
                   ELSE Goto(d, pc[d].line, "dtor")
           ELSE /\ mainHeap' = mainHeap
                /\ Log(d, <<Ev("ub", hd, "", "delete")>>)
                /\ Goto(d, Cur(d).next, Cur(d).nstep)
    /\ UNCHANGED <<shapes, iv, jv, exit, bankVars, objVars, moreVars>>

\* the next destructor of the chain of the object being deleted
StmtDtor(d) ==
    /\ At(d, {"delete"}, "dtor")
    /\ LET hd == shapes[d][jv[d]]
           obj == mainHeap[hd]
       IN  /\ mainHeap' = [mainHeap EXCEPT ![hd] = DtorNext(obj)]
           /\ Log(d, DtorBody(d, obj.vptr, hd))
           /\ IF DtorNext(obj) = DeadObj THEN Goto(d, Cur(d).next, Cur(d).nstep)
              ELSE Goto(d, pc[d].line, "dtor")
    /\ UNCHANGED <<shapes, iv, jv, exit, bankVars, objVars, moreVars>>

\* return 0; the automatic objects are then destroyed, last declared first
StmtReturn(d) ==
    /\ At(d, {"return"}, "")
    /\ jv' = [jv EXCEPT ![d] = Len(Locals(d))]
    /\ Goto(d, Cur(d).next, "unwind")
    /\ UNCHANGED <<mainHeap, shapes, iv, exit, trace, bankVars, objVars, moreVars>>

\* leaving main: one destructor of the automatic objects, or the exit
Unwind(d) ==
    /\ pc[d].step = "unwind"
    /\ IF jv[d] = 0
       THEN /\ Goto(d, pc[d].line, "done")
            /\ exit' = [exit EXCEPT ![d] = 0]
            /\ UNCHANGED <<mainHeap, jv, trace>>
       ELSE LET hd == Locals(d)[jv[d]]
                obj == mainHeap[hd]
            IN  /\ mainHeap' = [mainHeap EXCEPT ![hd] = DtorNext(obj)]
                /\ Log(d, DtorBody(d, obj.vptr, hd))
                /\ jv' = [jv EXCEPT ![d] = IF DtorNext(obj) = DeadObj THEN @ - 1 ELSE @]
                /\ UNCHANGED <<pc, exit>>
    /\ UNCHANGED <<shapes, iv, bankVars, objVars, moreVars>>

NextMain ==
    \E d \in Mains :
        \/ StmtVector(d)
        \/ StmtNew(d)
        \/ StmtCtor(d)
        \/ StmtPush(d)
        \/ StmtCout(d)
        \/ StmtRender(d)
        \/ ForEnter(d)
        \/ ForNext(d)
        \/ StmtDraw(d)
        \/ StmtDelete(d)
        \/ StmtDtor(d)
        \/ StmtReturn(d)
        \/ Unwind(d)

----------------------------------------------------------------------------
(* BankAccount *)

Uninit == [k |-> "uninit", v |-> 0]

NoBankOp == [op |-> "none", amount |-> Zero, ret |-> FALSE, val |-> Zero, prev |-> Uninit]

InitBank ==
    /\ balance = Uninit
    /\ bankOp = NoBankOp
    /\ bankCalls = <<>>

\* a call as it is seen from outside: the operation, its argument, its result
BankCall(op, amount, ret) == [op |-> op, amount |-> amount, ret |-> ret]

Constructed == bankOp.op # "none"

\* BankAccount::BankAccount(double initialBalance)
InitialBalance(initialBalance) ==
    IF FGe(initialBalance, Zero) THEN initialBalance ELSE Zero

BankAccount(initialBalance) ==
    /\ ~Constructed
    /\ UNCHANGED <<objVars, mainVars, moreVars>>
    /\ balance' = InitialBalance(initialBalance)
    /\ bankOp' = [op |-> "ctor", amount |-> initialBalance, ret |-> FALSE,
                  val |-> Zero, prev |-> balance]
    /\ bankCalls' = <<BankCall("ctor", initialBalance, FALSE)>>

\* the condition of deposit
DepositOkBug(amount) == amount.k # "nan" /\ amount # Zero

DepositOk(amount) == FGt(amount, Zero)

deposit(amount) ==
    /\ Constructed
    /\ Len(bankCalls) < MaxCalls
    /\ bankCalls' = Append(bankCalls, BankCall("deposit", amount, DepositOk(amount)))
    /\ UNCHANGED <<objVars, mainVars, moreVars>>
    /\ balance' = IF DepositOk(amount) THEN FAdd(balance, amount) ELSE balance
    /\ bankOp' = [op |-> "deposit", amount |-> amount, ret |-> DepositOk(amount),
                  val |-> Zero, prev |-> balance]

\* the condition of withdraw
WithdrawOkBug(amount, bal) == FGt(amount, Zero)

WithdrawOk(amount, bal) == FGt(amount, Zero) /\ FLe(amount, bal)

withdraw(amount) ==
    /\ Constructed
    /\ Len(bankCalls) < MaxCalls
    /\ bankCalls' = Append(bankCalls, BankCall("withdraw", amount, WithdrawOk(amount, balance)))
    /\ UNCHANGED <<objVars, mainVars, moreVars>>
    /\ balance' = IF WithdrawOk(amount, balance) THEN FSub(balance, amount) ELSE balance
    /\ bankOp' = [op |-> "withdraw", amount |-> amount, ret |-> WithdrawOk(amount, balance),
                  val |-> Zero, prev |-> balance]

getBalance ==
    /\ Constructed
    /\ Len(bankCalls) < MaxCalls
    /\ bankCalls' = Append(bankCalls, BankCall("getBalance", Zero, FALSE))
    /\ UNCHANGED <<objVars, mainVars, moreVars>>
    /\ balance' = balance
    /\ bankOp' = [op |-> "getBalance", amount |-> Zero, ret |-> FALSE,
                  val |-> balance, prev |-> balance]

NextBank ==
    \/ \E initialBalance \in Doubles : BankAccount(initialBalance)
    \/ \E amount \in Doubles : deposit(amount)
    \/ \E amount \in Doubles : withdraw(amount)
    \/ getBalance


----------------------------------------------------------------------------
(* int: a two's-complement integer of IntBits bits *)

IntMin == 0 - Pow2(IntBits - 1)
IntMax == Pow2(IntBits - 1) - 1
Ints == IntMin..IntMax

----------------------------------------------------------------------------
(* Employee *)

EmpNames == {"Alice Smith", "Bob"}
EmpIDs == {1001, 7}

NoEmpOp == [op |-> "none", name |-> "", id |-> 0, amount |-> Zero, ok |-> FALSE,
            prevName |-> "", prevID |-> 0, prev |-> Uninit,
            retName |-> "", retID |-> 0, ret |-> Zero]

InitEmployee ==
    /\ empName = ""
    /\ employeeID = 0
    /\ salary = Uninit
    /\ empOp = NoEmpOp

EmpConstructed == empOp.op # "none"

\* the condition of setSalary
SalaryOkBug(newSalary) == newSalary.k # "nan"

SalaryOk(newSalary) == FGe(newSalary, Zero)

\* the body of setSalary on a salary member holding cur
SetSalaryBody(cur, newSalary) == IF SalaryOk(newSalary) THEN newSalary ELSE cur

\* Employee::Employee(string empName, int empID, double empSalary): the salary
\* member has no initializer, so it holds an indeterminate value when the body
\* calls setSalary
Employee(name, empID, empSalary) ==
    /\ ~EmpConstructed
    /\ UNCHANGED <<bankVars, objVars, mainVars, rectVars, lifeVars, cplxVars, lateVars>>
    /\ \E indeterminate \in Doubles :
         /\ empName' = name
         /\ employeeID' = empID
         /\ salary' = SetSalaryBody(indeterminate, empSalary)
         /\ empOp' = [NoEmpOp EXCEPT !.op = "ctor", !.name = name, !.id = empID,
                                     !.amount = empSalary, !.ok = SalaryOk(empSalary),
                                     !.prevName = name, !.prevID = empID,
                                     !.prev = indeterminate]

EmpCall(op) == [NoEmpOp EXCEPT !.op = op, !.prevName = empName, !.prevID = employeeID,
                               !.prev = salary]

setSalary(newSalary) ==
    /\ EmpConstructed
    /\ UNCHANGED <<bankVars, objVars, mainVars, rectVars, lifeVars, cplxVars, lateVars>>
    /\ UNCHANGED <<empName, employeeID>>
    /\ salary' = SetSalaryBody(salary, newSalary)
    /\ empOp' = [EmpCall("setSalary") EXCEPT !.amount = newSalary, !.ok = SalaryOk(newSalary)]

getName ==
    /\ EmpConstructed
    /\ UNCHANGED <<bankVars, objVars, mainVars, rectVars, lifeVars, cplxVars, lateVars>>
    /\ UNCHANGED <<empName, employeeID, salary>>
    /\ empOp' = [EmpCall("getName") EXCEPT !.retName = empName]

getEmployeeID ==
    /\ EmpConstructed
    /\ UNCHANGED <<bankVars, objVars, mainVars, rectVars, lifeVars, cplxVars, lateVars>>
    /\ UNCHANGED <<empName, employeeID, salary>>
    /\ empOp' = [EmpCall("getEmployeeID") EXCEPT !.retID = employeeID]

getSalary ==
    /\ EmpConstructed
    /\ UNCHANGED <<bankVars, objVars, mainVars, rectVars, lifeVars, cplxVars, lateVars>>
    /\ UNCHANGED <<empName, employeeID, salary>>
    /\ empOp' = [EmpCall("getSalary") EXCEPT !.ret = salary]

\* prints the three members
displayEmployeeInfo ==
    /\ EmpConstructed
    /\ UNCHANGED <<bankVars, objVars, mainVars, rectVars, lifeVars, cplxVars, lateVars>>
    /\ UNCHANGED <<empName, employeeID, salary>>
    /\ empOp' = [EmpCall("displayEmployeeInfo") EXCEPT !.retName = empName,
                                                       !.retID = employeeID,
                                                       !.ret = salary]

NextEmployee ==
    \/ \E name \in EmpNames, empID \in EmpIDs, empSalary \in Doubles :
         Employee(name, empID, empSalary)
    \/ \E newSalary \in Doubles : setSalary(newSalary)
    \/ getName
    \/ getEmployeeID
    \/ getSalary
    \/ displayEmployeeInfo

----------------------------------------------------------------------------
(* Rectangle with private members (src/unnamed/part_003) *)

NoRectOp == [op |-> "none", len |-> 0, brth |-> 0, prevLength |-> 0, prevBreadth |-> 0,
             ret |-> 0]

\* no Rectangle exists yet: the members are written by the constructor before
\* anything reads them
InitRect ==
    /\ length = 0
    /\ breadth = 0
    /\ rectOp = NoRectOp

RectConstructed == rectOp.op # "none"

Rectangle(len, brth) ==
    /\ ~RectConstructed
    /\ UNCHANGED <<bankVars, objVars, mainVars, empVars, lifeVars, cplxVars, lateVars>>
    /\ IF len >= 0 /\ brth >= 0
         THEN length' = len /\ breadth' = brth
         ELSE length' = 0 /\ breadth' = 0
    /\ rectOp' = [NoRectOp EXCEPT !.op = "ctor", !.len = len, !.brth = brth]

RectCall(op) == [NoRectOp EXCEPT !.op = op, !.prevLength = length, !.prevBreadth = breadth]

\* the condition of setLength
SetLengthOkBug(len) == len >= IntMin

SetLengthOk(len) == len >= 0

setLength(len) ==
    /\ RectConstructed
    /\ UNCHANGED <<bankVars, objVars, mainVars, empVars, lifeVars, cplxVars, lateVars>>
    /\ length' = IF SetLengthOk(len) THEN len ELSE length
    /\ breadth' = breadth
    /\ rectOp' = [RectCall("setLength") EXCEPT !.len = len]

\* the condition of setBreadth
SetBreadthOk(brth) == brth >= 0

setBreadth(brth) ==
    /\ RectConstructed
    /\ UNCHANGED <<bankVars, objVars, mainVars, empVars, lifeVars, cplxVars, lateVars>>
    /\ breadth' = IF SetBreadthOk(brth) THEN brth ELSE breadth
    /\ length' = length
    /\ rectOp' = [RectCall("setBreadth") EXCEPT !.brth = brth]

getLength ==
    /\ RectConstructed
    /\ UNCHANGED <<bankVars, objVars, mainVars, empVars, lifeVars, cplxVars, lateVars>>
    /\ UNCHANGED <<length, breadth>>
    /\ rectOp' = [RectCall("getLength") EXCEPT !.ret = length]

getBreadth ==
    /\ RectConstructed
    /\ UNCHANGED <<bankVars, objVars, mainVars, empVars, lifeVars, cplxVars, lateVars>>
    /\ UNCHANGED <<length, breadth>>
    /\ rectOp' = [RectCall("getBreadth") EXCEPT !.ret = breadth]

\* length * breadth in int: a product beyond the range of int is undefined
\* behaviour, any int may come back
getArea ==
    /\ RectConstructed
    /\ UNCHANGED <<bankVars, objVars, mainVars, empVars, lifeVars, cplxVars, lateVars>>
    /\ UNCHANGED <<length, breadth>>
    /\ \E r \in Ints :
         /\ (length * breadth \in Ints) => r = length * breadth
         /\ rectOp' = [RectCall("getArea") EXCEPT !.ret = r]

NextRect ==
    \/ \E len \in Ints, brth \in Ints : Rectangle(len, brth)
    \/ \E len \in Ints : setLength(len)
    \/ \E brth \in Ints : setBreadth(brth)
    \/ getLength
    \/ getBreadth
    \/ getArea

----------------------------------------------------------------------------
(* Object lifetimes: constructor and destructor chains of the programs      *)
(* src/inheritance/5_Constructor_Destructor.cpp (deletion through a base   *)
(* pointer), the virtual diamond of src/abstraction/1_abstraction.cpp and   *)
(* the Car with its Engine of src/unnamed/part_001.  One constructor body,  *)
(* destructor body or statement of main per step; the programs are          *)
(* independent processes.                                                   *)

SeqRev(s) == [i \in 1..Len(s) |-> s[Len(s) + 1 - i]]

RECURSIVE SeqFlat(_)
SeqFlat(ss) == IF Len(ss) = 0 THEN <<>> ELSE Head(ss) \o SeqFlat(Tail(ss))

\* s without the repetitions of an earlier element
RECURSIVE SeqUniq(_)
SeqUniq(s) ==
    IF Len(s) = 0 THEN <<>>
    ELSE LET r == SeqUniq(SubSeq(s, 1, Len(s) - 1))
         IN  IF \E i \in 1..Len(r) : r[i] = s[Len(s)] THEN r ELSE Append(r, s[Len(s)])

LifeClasses == {"BaseNonVirtual", "DerivedNonVirtual", "BaseVirtual", "DerivedVirtual",
                "Person", "Student", "Teacher", "TeachingAssistant", "Engine", "Car"}

Base(cls, virt) == [cls |-> cls, virt |-> virt]

\* the base-specifier list of a class, in declaration order
Bases(c) ==
    CASE c = "DerivedNonVirtual" -> <<Base("BaseNonVirtual", FALSE)>>
      [] c = "DerivedVirtual" -> <<Base("BaseVirtual", FALSE)>>
      [] c = "Student" -> <<Base("Person", TRUE)>>
      [] c = "Teacher" -> <<Base("Person", TRUE)>>
      [] c = "TeachingAssistant" -> <<Base("Student", FALSE), Base("Teacher", FALSE)>>
      [] OTHER -> <<>>

\* the non-static data members of class type with a user-provided constructor
\* and destructor, in declaration order
Members(c) == IF c = "Car" THEN <<[name |-> "engine", cls |-> "Engine"]>> ELSE <<>>

\* the classes that declare their destructor virtual
DeclaresVirtualDtor(c) ==
    c \in {"BaseVirtual", "Person", "Student", "Teacher", "TeachingAssistant"}

\* a destructor is virtual if declared so or if a base class has a virtual one
RECURSIVE HasVirtualDtor(_)
HasVirtualDtor(c) ==
    \/ DeclaresVirtualDtor(c)
    \/ \E i \in 1..Len(Bases(c)) : HasVirtualDtor(Bases(c)[i].cls)

RECURSIVE IsBaseOf(_, _)
IsBaseOf(b, c) ==
    b = c \/ \E i \in 1..Len(Bases(c)) : IsBaseOf(b, Bases(c)[i].cls)

\* the base subobject of class s inside an object of class d
RECURSIVE PathTo(_, _)
PathTo(d, s) ==
    IF d = s THEN <<>>
    ELSE LET i == CHOOSE i \in 1..Len(Bases(d)) : IsBaseOf(s, Bases(d)[i].cls)
         IN  <<Bases(d)[i].cls>> \o PathTo(Bases(d)[i].cls, s)

\* the virtual base classes of c, depth first and left to right
RECURSIVE VBasesAll(_)
VBasesAll(c) ==
    SeqFlat([i \in 1..Len(Bases(c)) |->
                VBasesAll(Bases(c)[i].cls)
                    \o (IF Bases(c)[i].virt THEN <<Bases(c)[i].cls>> ELSE <<>>)])

VBases(c) == SeqUniq(VBasesAll(c))

NotVirtual(b) == ~b.virt

\* the direct bases that are built as part of their derived class
NonVirtualBasesBug(c) == Bases(c)

NonVirtualBases(c) == SelectSeq(Bases(c), NotVirtual)

Part(kind, cls, name) == [kind |-> kind, cls |-> cls, name |-> name]

BaseParts(c) ==
    [i \in 1..Len(NonVirtualBases(c)) |->
        Part("base", NonVirtualBases(c)[i].cls, NonVirtualBases(c)[i].cls)]

MemberParts(c) ==
    [i \in 1..Len(Members(c)) |-> Part("member", Members(c)[i].cls, Members(c)[i].name)]

\* what a constructor of c runs: the direct base classes in declaration order,
\* the members in declaration order, its body
CtorPartsBug(c) == <<Part("body", c, "")>> \o BaseParts(c) \o MemberParts(c)

CtorParts(c) == BaseParts(c) \o MemberParts(c) \o <<Part("body", c, "")>>

\* what a destructor of c runs: its body, the destructors of the members in
\* reverse declaration order, the destructors of the direct base classes in
\* reverse declaration order
DtorPartsBug(c) == <<Part("body", c, "")>> \o SeqRev(MemberParts(c)) \o BaseParts(c)

\* the members destroyed before the body of the destructor runs
DtorPartsMembersFirst(c) ==
    SeqRev(MemberParts(c)) \o <<Part("body", c, "")>> \o SeqRev(BaseParts(c))

DtorParts(c) == <<Part("body", c, "")>> \o SeqRev(MemberParts(c)) \o SeqRev(BaseParts(c))

\* a step of a chain: the body of class cls run on the subobject at path
Step(kind, cls, path) == [kind |-> kind, cls |-> cls, path |-> path]

RECURSIVE Unfold(_, _, _), CtorSeqFull(_, _), DtorSeqFull(_, _)

\* the bodies run by the constructor ("ctor") or destructor ("dtor") of the
\* subobject of class c at path, virtual bases apart
Unfold(kind, c, path) ==
    LET parts == IF kind = "ctor" THEN CtorParts(c) ELSE DtorParts(c)
    IN  SeqFlat([i \in 1..Len(parts) |->
            CASE parts[i].kind = "body" -> <<Step(kind, c, path)>>
              [] parts[i].kind = "base" ->
                    Unfold(kind, parts[i].cls, Append(path, parts[i].name))
              [] parts[i].kind = "member" ->
                    IF kind = "ctor"
                    THEN CtorSeqFull(parts[i].cls, Append(path, parts[i].name))
                    ELSE DtorSeqFull(parts[i].cls, Append(path, parts[i].name))])

\* construction of a complete object: the virtual bases first
CtorSeqFull(c, path) ==
    SeqFlat([i \in 1..Len(VBases(c)) |->
                Unfold("ctor", VBases(c)[i], Append(path, VBases(c)[i]))])
        \o Unfold("ctor", c, path)

\* destruction of a complete object: the virtual bases last, in reverse
DtorSeqFullBug(c, path) ==
    SeqFlat([i \in 1..Len(VBases(c)) |->
                Unfold("dtor", VBases(c)[i], Append(path, VBases(c)[i]))])
        \o Unfold("dtor", c, path)

DtorSeqFull(c, path) ==
    Unfold("dtor", c, path)
        \o SeqFlat([i \in 1..Len(VBases(c)) |->
                LET v == SeqRev(VBases(c))[i]
                IN  Unfold("dtor", v, Append(path, v))])

\* the class whose destructor `delete p` runs: the class of the object if the
\* destructor of the pointer's class is virtual, else the pointer's class
DeleteRunsStatic(static, dynamic) == static

DeleteRunsDynamic(static, dynamic) == dynamic

DeleteRuns(static, dynamic) == IF HasVirtualDtor(static) THEN dynamic ELSE static

\* deleting an object through a pointer to a base class without a virtual
\* destructor is undefined behaviour
DeleteDefined(static, dynamic) == HasVirtualDtor(static) \/ static = dynamic

\* what the builds do with it: run the destructor chain of the pointer's class
\* and release the storage, or run it and abort in the deallocation (a checked
\* allocator)
DeleteEnds(static, dynamic) ==
    IF DeleteDefined(static, dynamic) THEN {"free"} ELSE {"free", "abort"}

\* the members
NoLifeFields == [name |-> "", studentID |-> 0, subject |-> "", hoursPerWeek |-> 0,
                 model |-> "", data |-> "indeterminate"]

\* the constructor arguments
NoArgs == [n |-> "", id |-> 0, s |-> "", h |-> 0, m |-> ""]

\* the Person subobject default-constructed, Person(n = ""): the name argument
\* of the constructor is passed to no Person
CtorInitDefaultPerson(c, args, f) ==
    CASE c = "Student" -> [f EXCEPT !.studentID = args.id]
      [] c = "Teacher" -> [f EXCEPT !.subject = args.s]
      [] c = "TeachingAssistant" -> [f EXCEPT !.hoursPerWeek = args.h]
      [] c = "Car" -> [f EXCEPT !.model = args.m]
      [] OTHER -> f

\* the mem-initializers of the constructor of c
CtorInit(c, args, f) ==
    CASE c = "Person" -> [f EXCEPT !.name = args.n]
      [] c = "Student" -> [f EXCEPT !.studentID = args.id]
      [] c = "Teacher" -> [f EXCEPT !.subject = args.s]
      [] c = "TeachingAssistant" -> [f EXCEPT !.hoursPerWeek = args.h]
      [] c = "Car" -> [f EXCEPT !.model = args.m]
      [] OTHER -> f

\* the effects of a body, in order
Eff(e, cls, op, text, num) == [e |-> e, cls |-> cls, op |-> op, text |-> text, num |-> num]
EOut(text) == Eff("out", "", "", text, 0)
ECall(cls, op) == Eff("call", cls, op, "", 0)

RECURSIVE MemberFn(_, _, _)
MemberFn(c, op, f) ==
    CASE c = "Engine" /\ op = "start" -> <<EOut("Engine starting...")>>
      [] c = "Engine" /\ op = "stop" -> <<EOut("Engine stopping...")>>
      [] c = "Car" /\ op = "drive" ->
            <<ECall("Engine", "start")>> \o MemberFn("Engine", "start", f)
                \o <<EOut("Driving " \o f.model)>>
      [] c = "Person" /\ op = "greet" -> <<EOut("Hello, I am " \o f.name \o ".")>>
      [] c = "Student" /\ op = "study" ->
            <<EOut(f.name \o " (ID: " \o ToString(f.studentID) \o ") is studying.")>>
      [] c = "Teacher" /\ op = "teach" ->
            <<EOut(f.name \o " (Subject: " \o f.subject \o ") is teaching.")>>
      [] c = "TeachingAssistant" /\ op = "assist" ->
            <<EOut(f.name \o " is assisting for " \o ToString(f.hoursPerWeek)
                      \o " hours/week.")>>
      [] OTHER -> <<>>

LifeCtorBody(c, f) ==
    CASE c = "BaseNonVirtual" -> <<EOut("BaseNonVirtual Constructor")>>
      [] c = "DerivedNonVirtual" ->
            <<EOut("DerivedNonVirtual Constructor"), Eff("new", "", "", "", 10)>>
      [] c = "BaseVirtual" -> <<EOut("BaseVirtual Constructor")>>
      [] c = "DerivedVirtual" ->
            <<EOut("DerivedVirtual Constructor"), Eff("new", "", "", "", 20)>>
      [] c = "Person" -> <<EOut("Person Constructor: " \o f.name)>>
      [] c = "Student" -> <<EOut("Student Constructor: ID " \o ToString(f.studentID))>>
      [] c = "Teacher" -> <<EOut("Teacher Constructor: Subject " \o f.subject)>>
      [] c = "TeachingAssistant" ->
            <<EOut("TeachingAssistant Constructor: Hours " \o ToString(f.hoursPerWeek))>>
      [] c = "Engine" -> <<EOut("Engine constructed.")>>
      [] c = "Car" -> <<EOut("Car " \o f.model \o " created.")>>

LifeDtorBody(c, f) ==
    CASE c = "BaseNonVirtual" -> <<EOut("BaseNonVirtual Destructor")>>
      [] c = "DerivedNonVirtual" ->
            <<EOut("DerivedNonVirtual Destructor"), Eff("delete", "", "", "", 0),
              Eff("null", "", "", "", 0)>>
      [] c = "BaseVirtual" -> <<EOut("BaseVirtual Destructor")>>
      [] c = "DerivedVirtual" ->
            <<EOut("DerivedVirtual Destructor"), Eff("delete", "", "", "", 0),
              Eff("null", "", "", "", 0)>>
      [] c = "Person" -> <<EOut("Person Destructor: " \o f.name)>>
      [] c = "Student" -> <<EOut("Student Destructor: ID " \o ToString(f.studentID))>>
      [] c = "Teacher" -> <<EOut("Teacher Destructor: Subject " \o f.subject)>>
      [] c = "TeachingAssistant" ->
            <<EOut("TeachingAssistant Destructor: Hours " \o ToString(f.hoursPerWeek))>>
      [] c = "Engine" -> <<EOut("Engine destroyed.")>>
      [] c = "Car" ->
            <<ECall("Engine", "stop")>> \o MemberFn("Engine", "stop", f)
                \o <<EOut("Car " \o f.model \o " destroyed.")>>

\* an entry of the transcript of a program
LEv(ev, obj, cls, path, op, text) ==
    [ev |-> ev, obj |-> obj, cls |-> cls, path |-> path, op |-> op, text |-> text]

\* a block of the free store
Alloc(owner, what, val) == [owner |-> owner, what |-> what, val |-> val]

\* runs the effects of a body of the object obj on st = [heap, f, log]
RECURSIVE Effects(_, _, _)
Effects(effs, obj, st) ==
    IF Len(effs) = 0 THEN st
    ELSE LET e == Head(effs)
             next ==
               CASE e.e = "out" ->
                      [st EXCEPT !.log = Append(@, LEv("out", obj, "", <<>>, "", e.text))]
                 [] e.e = "call" ->
                      [st EXCEPT !.log = Append(@, LEv("call", obj, e.cls, <<>>, e.op, ""))]
                 [] e.e = "new" ->
                      [st EXCEPT !.heap = @ \cup {Alloc(obj, "data", e.num)},
                                 !.f = [@ EXCEPT !.data = "heap"],
                                 !.log = Append(@, LEv("new", obj, "", <<>>, "data", ""))]
                 [] e.e = "delete" ->
                      IF st.f.data = "heap"
                      THEN [st EXCEPT !.heap = {a \in @ : ~(a.owner = obj /\ a.what = "data")},
                                      !.f = [@ EXCEPT !.data = "dangling"],
                                      !.log = Append(@, LEv("free", obj, "", <<>>, "data", ""))]
                      ELSE st
                 [] e.e = "null" -> [st EXCEPT !.f = [@ EXCEPT !.data = "null"]]
         IN  Effects(Tail(effs), obj, next)

LifeMains == {"dtor", "diamond", "car"}

LSt(kind, var, cls, static, args, op, text) ==
    [kind |-> kind, var |-> var, cls |-> cls, static |-> static, args |-> args,
     op |-> op, text |-> text]

\* main of src/inheritance/5_Constructor_Destructor.cpp
MainDtor ==
    << LSt("cout", "", "", "", NoArgs, "", "--- Scenario 1: Non-Virtual Destructor ---"),
       LSt("new", "ptr1", "DerivedNonVirtual", "BaseNonVirtual", NoArgs, "", ""),
       LSt("delete", "ptr1", "", "", NoArgs, "", ""),
       LSt("cout", "", "", "", NoArgs, "",
           "Memory leak likely occurred above if DerivedNonVirtual allocated resources."),
       LSt("cout", "", "", "", NoArgs, "", "--- Scenario 2: Virtual Destructor ---"),
       LSt("new", "ptr2", "DerivedVirtual", "BaseVirtual", NoArgs, "", ""),
       LSt("delete", "ptr2", "", "", NoArgs, "", ""),
       LSt("return", "", "", "", NoArgs, "", "") >>

\* main of the virtual diamond
MainDiamond ==
    << LSt("local", "ta", "TeachingAssistant", "TeachingAssistant",
           [NoArgs EXCEPT !.n = "Alice", !.id = 101, !.s = "Math", !.h = 20], "", ""),
       LSt("call", "ta", "Person", "", NoArgs, "greet", ""),
       LSt("call", "ta", "Student", "", NoArgs, "study", ""),
       LSt("call", "ta", "Teacher", "", NoArgs, "teach", ""),
       LSt("call", "ta", "TeachingAssistant", "", NoArgs, "assist", ""),
       LSt("return", "", "", "", NoArgs, "", "") >>

\* main of the Car program
MainCar ==
    << LSt("local", "myCar", "Car", "Car", [NoArgs EXCEPT !.m = "Sedan"], "", ""),
       LSt("call", "myCar", "Car", "", NoArgs, "drive", ""),
       LSt("return", "", "", "", NoArgs, "", "") >>

LifeProgram(p) ==
    IF p = "dtor" THEN MainDtor ELSE IF p = "diamond" THEN MainDiamond ELSE MainCar

IsLocal(st) == st.kind = "local"

\* the automatic objects of a main, in declaration order
LifeLocals(p) == SelectSeq(LifeProgram(p), IsLocal)

NoLifeObj == [cls |-> "", static |-> "", state |-> "none", args |-> NoArgs,
              f |-> NoLifeFields]

InitLife ==
    /\ lifeObjs = [x \in {} |-> NoLifeObj]
    /\ lifeHeap = {}
    /\ lifePc = [p \in LifeMains |-> 1]
    /\ lifeTodo = [p \in LifeMains |-> <<>>]
    /\ lifeExit = [p \in LifeMains |-> -1]
    /\ lifeTrace = [p \in LifeMains |-> <<>>]

\* the object named x, if it was created
LifeObj(x) == IF x \in DOMAIN lifeObjs THEN lifeObjs[x] ELSE NoLifeObj

LifeRunning(p) == lifeExit[p] = -1

LifeCur(p) == LifeProgram(p)[lifePc[p]]

\* main is at a statement of the given kind, no chain is under way
LifeAt(p, kind) ==
    /\ LifeRunning(p)
    /\ lifeTodo[p] = <<>>
    /\ lifePc[p] \in 1..Len(LifeProgram(p))
    /\ LifeCur(p).kind = kind

\* a chain of main is at a step of the given kind
LifeIn(p, kind) ==
    /\ LifeRunning(p)
    /\ lifeTodo[p] # <<>>
    /\ Head(lifeTodo[p]).kind = kind

LifeLog(p, evs) == lifeTrace' = [lifeTrace EXCEPT ![p] = @ \o evs]

LifeStep(p) == lifePc' = [lifePc EXCEPT ![p] = @ + 1]

LifePop(p) == lifeTodo' = [lifeTodo EXCEPT ![p] = Tail(@)]

LifeCout(p) ==
    /\ LifeAt(p, "cout")
    /\ LifeLog(p, <<LEv("out", "", "", <<>>, "", LifeCur(p).text)>>)
    /\ LifeStep(p)
    /\ UNCHANGED <<lifeObjs, lifeHeap, lifeTodo, lifeExit>>
    /\ UNCHANGED <<bankVars, objVars, mainVars, empVars, rectVars, cplxVars, lateVars>>

\* T* p = new C(): the storage is obtained, the constructor chain starts
LifeNew(p) ==
    /\ LifeAt(p, "new")
    /\ LET st == LifeCur(p)
       IN  /\ lifeObjs' = [x \in DOMAIN lifeObjs \cup {st.var} |->
                             IF x = st.var
                             THEN [NoLifeObj EXCEPT !.cls = st.cls, !.static = st.static,
                                                    !.state = "constructing",
                                                    !.args = st.args]
                             ELSE lifeObjs[x]]
           /\ lifeHeap' = lifeHeap \cup {Alloc(st.var, "object", 0)}
           /\ lifeTodo' = [lifeTodo EXCEPT ![p] = CtorSeqFull(st.cls, <<st.var>>)]
           /\ LifeLog(p, <<LEv("new", st.var, st.cls, <<st.var>>, "object", "")>>)
    /\ LifeStep(p)
    /\ UNCHANGED lifeExit
    /\ UNCHANGED <<bankVars, objVars, mainVars, empVars, rectVars, cplxVars, lateVars>>

\* C x(args): the constructor chain of an automatic object starts
LifeLocal(p) ==
    /\ LifeAt(p, "local")
    /\ LET st == LifeCur(p)
       IN  /\ lifeObjs' = [x \in DOMAIN lifeObjs \cup {st.var} |->
                             IF x = st.var
                             THEN [NoLifeObj EXCEPT !.cls = st.cls, !.static = st.static,
                                                    !.state = "constructing",
                                                    !.args = st.args]
                             ELSE lifeObjs[x]]
           /\ lifeTodo' = [lifeTodo EXCEPT ![p] = CtorSeqFull(st.cls, <<st.var>>)]
    /\ LifeStep(p)
    /\ UNCHANGED <<lifeHeap, lifeExit, lifeTrace>>
    /\ UNCHANGED <<bankVars, objVars, mainVars, empVars, rectVars, cplxVars, lateVars>>

\* one constructor: its mem-initializers and its body
LifeCtor(p) ==
    /\ LifeIn(p, "ctor")
    /\ LET s == Head(lifeTodo[p])
           obj == s.path[1]
           o == lifeObjs[obj]
           f1 == CtorInit(s.cls, o.args, o.f)
           st == Effects(LifeCtorBody(s.cls, f1), obj,
                         [heap |-> lifeHeap, f |-> f1,
                          log |-> Append(lifeTrace[p], LEv("ctor", obj, s.cls, s.path, "", ""))])
       IN  /\ lifeObjs' = [lifeObjs EXCEPT ![obj] =
                             [o EXCEPT !.f = st.f,
                                       !.state = IF Len(lifeTodo[p]) = 1 THEN "alive" ELSE @]]
           /\ lifeHeap' = st.heap
           /\ lifeTrace' = [lifeTrace EXCEPT ![p] = st.log]
    /\ LifePop(p)
    /\ UNCHANGED <<lifePc, lifeExit>>
    /\ UNCHANGED <<bankVars, objVars, mainVars, empVars, rectVars, cplxVars, lateVars>>

\* x.f(): a member function of an object
LifeCall(p) ==
    /\ LifeAt(p, "call")
    /\ LET c == LifeCur(p)
           o == lifeObjs[c.var]
           st == Effects(MemberFn(c.cls, c.op, o.f), c.var,
                         [heap |-> lifeHeap, f |-> o.f,
                          log |-> Append(lifeTrace[p],
                                         LEv("call", c.var, c.cls, <<>>, c.op, ""))])
       IN  /\ o.state = "alive"
           /\ lifeObjs' = [lifeObjs EXCEPT ![c.var] = [o EXCEPT !.f = st.f]]
           /\ lifeHeap' = st.heap
           /\ lifeTrace' = [lifeTrace EXCEPT ![p] = st.log]
    /\ LifeStep(p)
    /\ UNCHANGED <<lifeTodo, lifeExit>>
    /\ UNCHANGED <<bankVars, objVars, mainVars, empVars, rectVars, cplxVars, lateVars>>

\* delete p: the destructor chain chosen by the pointer's class starts; it ends
\* in the release of the storage or, where the behaviour is undefined, possibly
\* in an abort
LifeDelete(p) ==
    /\ LifeAt(p, "delete")
    /\ LET var == LifeCur(p).var
           o == lifeObjs[var]
           run == DeleteRuns(o.static, o.cls)
       IN  /\ o.state = "alive"
           /\ \E end \in DeleteEnds(o.static, o.cls) :
                lifeTodo' = [lifeTodo EXCEPT ![p] =
                               DtorSeqFull(run, <<var>> \o PathTo(o.cls, run))
                                   \o <<Step(end, run, <<var>>)>>]
           /\ lifeObjs' = [lifeObjs EXCEPT ![var] = [o EXCEPT !.state = "destroying"]]
    /\ LifeStep(p)
    /\ UNCHANGED <<lifeHeap, lifeExit, lifeTrace>>
    /\ UNCHANGED <<bankVars, objVars, mainVars, empVars, rectVars, cplxVars, lateVars>>

\* one destructor body
LifeDtor(p) ==
    /\ LifeIn(p, "dtor")
    /\ LET s == Head(lifeTodo[p])
           obj == s.path[1]
           o == lifeObjs[obj]
           st == Effects(LifeDtorBody(s.cls, o.f), obj,
                         [heap |-> lifeHeap, f |-> o.f,
                          log |-> Append(lifeTrace[p], LEv("dtor", obj, s.cls, s.path, "", ""))])
           last == \A i \in 2..Len(lifeTodo[p]) :
                      ~(lifeTodo[p][i].kind = "dtor" /\ lifeTodo[p][i].path[1] = obj)
       IN  /\ lifeObjs' = [lifeObjs EXCEPT ![obj] =
                             [o EXCEPT !.f = st.f,
                                       !.state = IF last THEN "destroyed" ELSE @]]
           /\ lifeHeap' = st.heap
           /\ lifeTrace' = [lifeTrace EXCEPT ![p] = st.log]
    /\ LifePop(p)
    /\ UNCHANGED <<lifePc, lifeExit>>
    /\ UNCHANGED <<bankVars, objVars, mainVars, empVars, rectVars, cplxVars, lateVars>>

\* the deallocation that ends a delete expression
LifeFree(p) ==
    /\ LifeIn(p, "free")
    /\ LET obj == Head(lifeTodo[p]).path[1]
       IN  /\ lifeHeap' = {a \in lifeHeap : ~(a.owner = obj /\ a.what = "object")}
           /\ lifeObjs' = [lifeObjs EXCEPT ![obj] = [@ EXCEPT !.state = "freed"]]
           /\ LifeLog(p, <<LEv("free", obj, "", <<obj>>, "object", "")>>)
    /\ LifePop(p)
    /\ UNCHANGED <<lifePc, lifeExit>>
    /\ UNCHANGED <<bankVars, objVars, mainVars, empVars, rectVars, cplxVars, lateVars>>

\* the deallocation detects the mismatch and aborts the program
LifeAbort(p) ==
    /\ LifeIn(p, "abort")
    /\ lifeExit' = [lifeExit EXCEPT ![p] = 134]
    /\ lifeTodo' = [lifeTodo EXCEPT ![p] = <<>>]
    /\ LifeLog(p, <<LEv("abort", Head(lifeTodo[p]).path[1], "", <<>>, "", "")>>)
    /\ UNCHANGED <<lifeObjs, lifeHeap, lifePc>>
    /\ UNCHANGED <<bankVars, objVars, mainVars, empVars, rectVars, cplxVars, lateVars>>

\* return 0: the automatic objects are destroyed in reverse order of their
\* declarations, then the program exits
LifeReturn(p) ==
    /\ LifeAt(p, "return")
    /\ LET locals == SeqRev(LifeLocals(p))
       IN  /\ lifeTodo' = [lifeTodo EXCEPT ![p] =
                             SeqFlat([i \in 1..Len(locals) |->
                                         DtorSeqFull(locals[i].cls, <<locals[i].var>>)])
                                 \o <<Step("exit", "", <<"">>)>>]
           /\ lifeObjs' = [x \in DOMAIN lifeObjs |->
                             IF \E i \in 1..Len(locals) : locals[i].var = x
                             THEN [lifeObjs[x] EXCEPT !.state = "destroying"]
                             ELSE lifeObjs[x]]
    /\ LifeStep(p)
    /\ UNCHANGED <<lifeHeap, lifeExit, lifeTrace>>
    /\ UNCHANGED <<bankVars, objVars, mainVars, empVars, rectVars, cplxVars, lateVars>>

LifeExit(p) ==
    /\ LifeIn(p, "exit")
    /\ lifeExit' = [lifeExit EXCEPT ![p] = 0]
    /\ lifeTodo' = [lifeTodo EXCEPT ![p] = <<>>]
    /\ UNCHANGED <<lifeObjs, lifeHeap, lifePc, lifeTrace>>
    /\ UNCHANGED <<bankVars, objVars, mainVars, empVars, rectVars, cplxVars, lateVars>>

NextLife ==
    \E p \in LifeMains :
        \/ LifeCout(p)
        \/ LifeNew(p)
        \/ LifeLocal(p)
        \/ LifeCtor(p)
        \/ LifeCall(p)
        \/ LifeDelete(p)
        \/ LifeDtor(p)
        \/ LifeFree(p)
        \/ LifeAbort(p)
        \/ LifeReturn(p)
        \/ LifeExit(p)

----------------------------------------------------------------------------
(* Complex (src/polymorphism/1_Compile_Time_Polymorphism/2_operator_overloading.cpp) *)

ComplexNames == {"c1", "c2", "c3"}

NoComplex == [made |-> FALSE, real |-> 0, imag |-> 0]

NoCplxOp == [op |-> "none", a |-> "", b |-> "", prevA |-> NoComplex, prevB |-> NoComplex,
             text |-> ""]

InitComplex ==
    /\ cplx = [x \in ComplexNames |-> NoComplex]
    /\ cplxOp = NoCplxOp

CplxRunning == cplxOp.op # "abort"

\* the conversion double -> int of `this->real = real`: the value itself when
\* it is in the range of int (the values of the format are integral); for any
\* other value the behaviour is undefined, and the builds give the least int
\* (x86), the nearest int or 0 for a NaN (saturating hardware)
ToInt(d) ==
    IF d.k = "fin" /\ d.v \in Ints THEN {d.v}
    ELSE IF d.k = "nan" THEN {IntMin, 0}
    ELSE IF d.v > 0 THEN {IntMin, IntMax}
    ELSE {IntMin}

\* the int a wrapped sum comes back as
Wrap(n) == ((n - IntMin) % Pow2(IntBits)) + IntMin

\* Complex::Complex(double real, double imag)
Complex(x, real, imag) ==
    /\ CplxRunning
    /\ ~cplx[x].made
    /\ \E r \in ToInt(real), i \in ToInt(imag) :
         cplx' = [cplx EXCEPT ![x] = [made |-> TRUE, real |-> r, imag |-> i]]
    /\ cplxOp' = [NoCplxOp EXCEPT !.op = "ctor", !.a = x]
    /\ UNCHANGED <<bankVars, objVars, mainVars, empVars, rectVars, lifeVars, lateVars>>

\* Complex c3 = a + b: operator+ builds result from Complex() and the two int
\* sums; a sum outside the range of int is undefined behaviour, and the builds
\* either wrap it or trap (-ftrapv)
operatorPlus(a, b) ==
    /\ CplxRunning
    /\ cplx[a].made /\ cplx[b].made
    /\ ~cplx["c3"].made
    /\ LET re == cplx[a].real + cplx[b].real
           im == cplx[a].imag + cplx[b].imag
           call == [NoCplxOp EXCEPT !.a = a, !.b = b, !.prevA = cplx[a], !.prevB = cplx[b]]
       IN  \E outcome \in (IF re \in Ints /\ im \in Ints THEN {"sum"} ELSE {"wrap", "trap"}) :
             IF outcome = "trap"
             THEN /\ cplx' = cplx
                  /\ cplxOp' = [call EXCEPT !.op = "abort"]
             ELSE /\ cplx' = [cplx EXCEPT !["c3"] =
                                [made |-> TRUE, real |-> Wrap(re), imag |-> Wrap(im)]]
                  /\ cplxOp' = [call EXCEPT !.op = "operator+"]
    /\ UNCHANGED <<bankVars, objVars, mainVars, empVars, rectVars, lifeVars, lateVars>>

display(x) ==
    /\ CplxRunning
    /\ cplx[x].made
    /\ cplx' = cplx
    /\ cplxOp' = [NoCplxOp EXCEPT !.op = "display", !.a = x,
                                  !.text = ToString(cplx[x].real) \o " + "
                                              \o ToString(cplx[x].imag) \o "i "]
    /\ UNCHANGED <<bankVars, objVars, mainVars, empVars, rectVars, lifeVars, lateVars>>

NextComplex ==
    \/ \E x \in {"c1", "c2"}, real \in Doubles, imag \in Doubles : Complex(x, real, imag)
    \/ \E a \in {"c1", "c2"}, b \in {"c1", "c2"} : operatorPlus(a, b)
    \/ \E x \in ComplexNames : display(x)

----------------------------------------------------------------------------
(* The hybrid inheritance of inheritance/1_single_inheritance.cpp:         *)
(* TeachingAssistant derives from Student and from Teacher, which each      *)
(* derive from Person non-virtually.  The object is a function from its     *)
(* subobjects to their members; the members are public, so a client reads   *)
(* and assigns them with a qualified name such as ta.Student::name.         *)

HybridNames == {"John Doe", "Jane Roe"}
HybridAges == {25, 26}
Vias == {"Student", "Teacher"}

\* one Person subobject shared by both paths, as under virtual inheritance
PersonOfShared(via) == "Person"

\* the Person base class subobject of the base class via: Student and Teacher
\* each hold their own
PersonOf(via) == via \o "::Person"

NoTA == [p \in {} |-> [name |-> "", age |-> 0]]
NoTaOp == [op |-> "none", via |-> "", member |-> "", n |-> "", a |-> 0, prev |-> NoTA,
           out |-> <<>>]

InitHybrid ==
    /\ ta = NoTA
    /\ taOp = NoTaOp

TAMade == DOMAIN ta # {}

\* the member initialisers of a constructor set the members of subobject part
Put(obj, part, members) ==
    [p \in DOMAIN obj \cup {part} |-> IF p = part THEN members ELSE obj[p]]

\* Person(n, a) : name(n), age(a)
HybridPerson(obj, part, n, a) == Put(obj, part, [name |-> n, age |-> a])

\* Student(n, a, id) : Person(n, a), studentID(id)
HybridStudent(obj, n, a, id) ==
    Put(HybridPerson(obj, PersonOf("Student"), n, a), "Student", [studentID |-> id])

\* Teacher(n, a, s) : Person(n, a), subject(s)
HybridTeacher(obj, n, a, s) ==
    Put(HybridPerson(obj, PersonOf("Teacher"), n, a), "Teacher", [subject |-> s])

\* TeachingAssistant(n, a, id, s, h) : Student(n, a, id), Teacher(n, a, s), hoursPerWeek(h)
HybridTeachingAssistant(n, a, id, s, h) ==
    Put(HybridTeacher(HybridStudent(NoTA, n, a, id), n, a, s),
        "TeachingAssistant", [hoursPerWeek |-> h])

\* TeachingAssistant ta(n, a, 12345, "Computer Science", 15)
NewTA(n, a) ==
    /\ ~TAMade
    /\ ta' = HybridTeachingAssistant(n, a, 12345, "Computer Science", 15)
    /\ taOp' = [NoTaOp EXCEPT !.op = "ctor", !.n = n, !.a = a]
    /\ UNCHANGED <<earlyVars, printVars, friendVars>>

displayPersonInfo(via) ==
    <<"Name: " \o ta[PersonOf(via)].name \o ", Age: " \o ToString(ta[PersonOf(via)].age)>>

\* ta.displayTAInfo()
displayTAInfo ==
    /\ TAMade
    /\ taOp' = [NoTaOp EXCEPT !.op = "displayTAInfo", !.prev = ta,
                  !.out = <<"", "--- Teaching Assistant Info ---">>
                          \o displayPersonInfo("Student")
                          \o <<"Student ID: " \o ToString(ta["Student"].studentID),
                               "Subject: " \o ta["Teacher"].subject,
                               "Hours per week: "
                                   \o ToString(ta["TeachingAssistant"].hoursPerWeek)>>]
    /\ UNCHANGED <<ta, earlyVars, printVars, friendVars>>

\* cout << ta.Student::name, cout << ta.Teacher::age
ReadMember(via, member) ==
    /\ TAMade
    /\ taOp' = [NoTaOp EXCEPT !.op = "read", !.via = via, !.member = member, !.prev = ta,
                  !.n = IF member = "name" THEN ta[PersonOf(via)].name ELSE "",
                  !.a = IF member = "age" THEN ta[PersonOf(via)].age ELSE 0]
    /\ UNCHANGED <<ta, earlyVars, printVars, friendVars>>

\* ta.Student::name = n, ta.Teacher::name = n
WriteName(via, n) ==
    /\ TAMade
    /\ ta' = [ta EXCEPT ![PersonOf(via)].name = n]
    /\ taOp' = [NoTaOp EXCEPT !.op = "write", !.via = via, !.member = "name", !.n = n,
                              !.prev = ta]
    /\ UNCHANGED <<earlyVars, printVars, friendVars>>

\* ta.Student::age = a, ta.Teacher::age = a
WriteAge(via, a) ==
    /\ TAMade
    /\ ta' = [ta EXCEPT ![PersonOf(via)].age = a]
    /\ taOp' = [NoTaOp EXCEPT !.op = "write", !.via = via, !.member = "age", !.a = a,
                              !.prev = ta]
    /\ UNCHANGED <<earlyVars, printVars, friendVars>>

NextHybrid ==
    \/ \E n \in HybridNames, a \in HybridAges : NewTA(n, a)
    \/ displayTAInfo
    \/ \E via \in Vias, member \in {"name", "age"} : ReadMember(via, member)
    \/ \E via \in Vias, n \in HybridNames : WriteName(via, n)
    \/ \E via \in Vias, a \in HybridAges : WriteAge(via, a)

----------------------------------------------------------------------------
(* Printer of 1_function_overloading.cpp: three overloads of print, one     *)
(* chosen for each call expression by overload resolution on the static     *)
(* type of the argument.  A double argument is kept as a decimal with five  *)
(* places (e5 = d * 10^5).                                                  *)

MaxPrints == 3

\* the parameter types of the overloads of Printer::print
Overloads == {"int", "double", "string"}

\* the static types of the arguments: int, double, a string literal
\* (const char[N]) and std::string
ArgTypes == {"int", "double", "literal", "string"}

Arg(type, i, e5, s) == [type |-> type, i |-> i, e5 |-> e5, s |-> s]

PrintArgs ==
    {Arg("int", i, 0, "") : i \in {100, 0}}
        \cup {Arg("double", 0, e5, "") : e5 \in {314159, 10000000}}
        \cup {Arg("literal", 0, 0, s) : s \in {"Hello, C++!"}}
        \cup {Arg("string", 0, 0, s) : s \in {"Hello, C++!", ""}}

\* the rank of the implicit conversion from an argument type to a parameter
\* type: 1 exact match, 3 conversion, 4 user-defined conversion, 0 none
Rank(argType, param) ==
    IF argType = param THEN 1
    ELSE IF {argType, param} = {"int", "double"} THEN 3
    ELSE IF argType = "literal" /\ param = "string" THEN 4
    ELSE 0

\* overload resolution: the viable overload with the best conversion
Best(argType) ==
    LET viable == {p \in Overloads : Rank(argType, p) > 0}
        best == {p \in viable : \A q \in viable : Rank(argType, p) <= Rank(argType, q)}
    IN  IF Cardinality(best) = 1 THEN CHOOSE p \in best : TRUE
        ELSE IF best = {} THEN "none"
        ELSE "ambiguous"

\* the overload chosen by the value: a double without a fraction is printed
\* as an integer
SelectByValue(arg) ==
    IF arg.type = "double" /\ arg.e5 % 100000 = 0 THEN "int" ELSE Best(arg.type)

\* the overload called by p.print(arg)
Select(arg) == Best(arg.type)

\* the digits of a fraction of five places, without the trailing zeros
RECURSIVE Fraction(_, _)
Fraction(fr, places) ==
    IF fr % 10 = 0 /\ places > 1 THEN Fraction(fr \div 10, places - 1)
    ELSE IF places = 1 THEN ToString(fr)
    ELSE Fraction(fr \div 10, places - 1) \o ToString(fr % 10)

\* cout << d for a d >= 0 with at most six significant digits
DoubleText(e5) ==
    IF e5 % 100000 = 0 THEN ToString(e5 \div 100000)
    ELSE ToString(e5 \div 100000) \o "." \o Fraction(e5 % 100000, 5)

\* the argument converted to the parameter type and the body of the overload
PrintBody(overload, arg) ==
    CASE overload = "int" ->
            "Printing an integer: "
                \o ToString(IF arg.type = "double" THEN arg.e5 \div 100000 ELSE arg.i)
      [] overload = "double" ->
            "Printing a double: "
                \o DoubleText(IF arg.type = "int" THEN arg.i * 100000 ELSE arg.e5)
      [] overload = "string" -> "Printing a string: \"" \o arg.s \o "\""

InitPrinter == printed = <<>>

\* p.print(arg)
print(arg) ==
    /\ Len(printed) < MaxPrints
    /\ Select(arg) \in Overloads
    /\ printed' = Append(printed, [arg |-> arg, overload |-> Select(arg),
                                   text |-> PrintBody(Select(arg), arg)])
    /\ UNCHANGED <<earlyVars, hybridVars, friendVars>>

NextPrinter == \E arg \in PrintArgs : print(arg)

----------------------------------------------------------------------------
(* The friends: Engine, friend class of the Car of 4_friend_class.cpp, and  *)
(* revealSecret, friend function of the SecretBox of part_004.  checkFuel   *)
(* takes the Car by reference, revealSecret takes the SecretBox by value.   *)

MaxFriendCalls == 6

NoCar == [made |-> FALSE, fuel |-> 0]
NoBox == [made |-> FALSE, secretCode |-> 0]

InitFriend ==
    /\ myCar = NoCar
    /\ box = NoBox
    /\ friendLog = <<>>

\* Car myCar; with the default member initializer int fuel = 50
NewCar ==
    /\ ~myCar.made
    /\ myCar' = [made |-> TRUE, fuel |-> 50]
    /\ UNCHANGED <<box, friendLog, earlyVars, hybridVars, printVars>>

\* SecretBox box; with the default member initializer int secretCode = 1234
NewSecretBox ==
    /\ ~box.made
    /\ box' = [made |-> TRUE, secretCode |-> 1234]
    /\ UNCHANGED <<myCar, friendLog, earlyVars, hybridVars, printVars>>

\* an accessor that uses up what it reads
FriendBodyWrites(fn, obj) ==
    IF fn = "checkFuel"
    THEN [obj |-> [obj EXCEPT !.fuel = 0], out |-> "Fuel level: " \o ToString(obj.fuel)]
    ELSE [obj |-> [obj EXCEPT !.secretCode = 0],
          out |-> "Secret code is: " \o ToString(obj.secretCode)]

\* the bodies of Engine::checkFuel and revealSecret run on the object their
\* parameter names: the object after the body and the line printed
FriendBody(fn, obj) ==
    IF fn = "checkFuel"
    THEN [obj |-> obj, out |-> "Fuel level: " \o ToString(obj.fuel)]
    ELSE [obj |-> obj, out |-> "Secret code is: " \o ToString(obj.secretCode)]

\* e.checkFuel(myCar): the parameter Car &c is myCar itself
checkFuel ==
    /\ myCar.made
    /\ Len(friendLog) < MaxFriendCalls
    /\ LET r == FriendBody("checkFuel", myCar)
       IN  /\ myCar' = r.obj
           /\ friendLog' = Append(friendLog, [fn |-> "checkFuel", out |-> r.out])
    /\ UNCHANGED <<box, earlyVars, hybridVars, printVars>>

\* revealSecret(box): the parameter is a copy of the caller's box, destroyed
\* at the end of the call
revealSecret ==
    /\ box.made
    /\ Len(friendLog) < MaxFriendCalls
    /\ LET copy == box
           r == FriendBody("revealSecret", copy)
       IN  /\ box' = box
           /\ friendLog' = Append(friendLog, [fn |-> "revealSecret", out |-> r.out])
    /\ UNCHANGED <<myCar, earlyVars, hybridVars, printVars>>

NextFriend ==
    \/ NewCar
    \/ NewSecretBox
    \/ checkFuel
    \/ revealSecret

----------------------------------------------------------------------------
(* Specifications *)

Init == InitBank /\ InitObjs /\ InitMain /\ InitEmployee /\ InitRect /\ InitLife
        /\ InitComplex /\ InitHybrid /\ InitPrinter /\ InitFriend

Next == NextObjs

\* the client of the Shape classes
Spec == Init /\ [][Next]_vars

\* the three main() programs
SpecMain == Init /\ [][NextMain]_vars

\* the BankAccount and its callers
SpecBank == Init /\ [][NextBank]_vars

\* the Employee and its callers
SpecEmployee == Init /\ [][NextEmployee]_vars

\* the Rectangle and its callers
SpecRect == Init /\ [][NextRect]_vars

\* the three lifetime programs
SpecLife == Init /\ [][NextLife]_vars

\* the Complex objects and their callers
SpecComplex == Init /\ [][NextComplex]_vars

\* the TeachingAssistant of the hybrid inheritance and its callers
SpecHybrid == Init /\ [][NextHybrid]_vars

\* the Printer and its callers
SpecPrinter == Init /\ [][NextPrinter]_vars

\* the Car, the SecretBox and their friends
SpecFriend == Init /\ [][NextFriend]_vars

----------------------------------------------------------------------------
(* Properties of the main() programs, checked under SpecMain *)

Done(d) == pc[d].step = "done"

\* the draw() calls made from main, in order (render's calls included)
DrawCalls(d) == SelectSeq(trace[d], LAMBDA e : e.ev = "call" /\ e.op = "draw")

\* the positions of the transcript where an object is released
Releases(d) == {i \in 1..Len(trace[d]) : trace[d][i].ev \in {"delete", "dtor"}}

\* the positions of the transcript where draw is entered
Draws(d) == {i \in 1..Len(trace[d]) : trace[d][i].ev = "call" /\ trace[d][i].op = "draw"}

\* C1: when the pure-interface main has finished, draw() has been invoked on
\* every shape of the vector exactly once, in insertion order, and every one
\* of these invocations came before any shape was released.
C1_DrawAllBeforeRelease ==
    Done("iface") =>
        /\ Len(shapes["iface"]) = 3
        /\ Len(DrawCalls("iface")) = Len(shapes["iface"])
        /\ \A i \in 1..Len(shapes["iface"]) :
               i <= Len(DrawCalls("iface")) => DrawCalls("iface")[i].obj = shapes["iface"][i]
        /\ \A i \in Draws("iface") : \A j \in Releases("iface") : i < j

\* the texts written for object hd, in order
OutTexts(d, hd) ==
    LET outs == SelectSeq(trace[d], LAMBDA e : e.ev = "out" /\ e.obj = hd)
    IN  [i \in 1..Len(outs) |-> outs[i].text]

\* the color passed to the constructor of the object declared on a line of main
ColorGiven(line) == MainAbstract[line].args.color

\* C2: in the abstract-Shape main, draw() on the elements of the vector runs
\* Circle::draw for circle1 and then Square::draw for square1, in vector order,
\* and each prints the color given to the constructor of that object.
C2_OwnDrawInOrder ==
    LET calls == DrawCalls("abstract")
    IN  /\ Len(calls) <= 2
        /\ Len(calls) >= 1 => calls[1].obj = "circle1" /\ calls[1].cls = "Circle"
        /\ Len(calls) >= 2 => calls[2].obj = "square1" /\ calls[2].cls = "Square"
        /\ \A i \in 1..Len(trace["abstract"]) : trace["abstract"][i].ev # "unresolved"
        /\ Done("abstract") =>
              /\ Len(calls) = 2
              /\ shapes["abstract"] = <<"circle1", "square1">>
              /\ OutTexts("abstract", "circle1")
                    = <<"Drawing a Circle with radius ", ". ", "Color: ", ColorGiven(55)>>
              /\ OutTexts("abstract", "square1")
                    = <<"Drawing a Square with side ", ". ", "Color: ", ColorGiven(56)>>
              /\ ColorGiven(55) = "Red" /\ ColorGiven(56) = "Blue"

\* both elements of the vector have been drawn
C2_Witness ==
    /\ Len(DrawCalls("abstract")) = 2
    /\ OutTexts("abstract", "square1") # <<>>
    /\ Done("abstract")

----------------------------------------------------------------------------
(* Properties of the Shape classes, checked under Spec *)

IsCall == lastEv.kind \in {"call", "render"}

OutTextsOf(evs) ==
    LET outs == SelectSeq(evs, LAMBDA e : e.ev = "out")
    IN  [i \in 1..Len(outs) |-> outs[i].text]

\* C3: render(p) runs the draw of the class of the object p points to whenever
\* that class defines draw, never its parent's: Circle "Drawing a circle.",
\* Square "Drawing a square.", and only Shape "Drawing a generic shape.".
C3_OverridePrecedence ==
    lastEv.kind = "render" =>
        /\ "draw" \in ClassTable["render"][lastEv.cls].impl => lastEv.impl = lastEv.cls
        /\ lastEv.cls = "Circle" => OutTextsOf(lastEv.evs) = <<"Drawing a circle.">>
        /\ lastEv.cls = "Square" => OutTextsOf(lastEv.evs) = <<"Drawing a square.">>
        /\ (OutTextsOf(lastEv.evs) = <<"Drawing a generic shape.">>) <=> (lastEv.cls = "Shape")

\* render has been called on a Circle
C3_Witness ==
    /\ lastEv.kind = "render" /\ lastEv.cls = "Circle"
    /\ lastEv.impl = "Circle"

\* the classes from n up to the root
Ancestors(h, n) == {Chain(h, n)[i] : i \in 1..Len(Chain(h, n))}

\* some pure virtual function declared along the chain of n is implemented nowhere along it
MissingMandatory(h, n) ==
    \E a \in Ancestors(h, n) : \E op \in ClassTable[h][a].pure :
        \A b \in Ancestors(h, n) : op \notin ClassTable[h][b].impl

\* C4: creating an object is rejected as abstract instantiation iff some pure
\* virtual function of the ancestor chain has no implementation along the
\* chain: the abstract Shapes and IncompleteShape are rejected; Circle, Square
\* and Rectangle are created.
C4_AbstractIffNotConcrete ==
    lastEv.kind = "create" =>
        /\ (lastEv.outcome = "AbstractInstantiation") <=> MissingMandatory(lastEv.h, lastEv.cls)
        /\ lastEv.outcome \in {"AbstractInstantiation", "created"}
        /\ lastEv.cls \in {"Circle", "Square", "Rectangle"} => lastEv.outcome = "created"
        /\ (lastEv.cls = "IncompleteShape" \/ (lastEv.cls = "Shape" /\ lastEv.h # "render"))
              => lastEv.outcome = "AbstractInstantiation"
        /\ lastEv.outcome = "created" => objs[lastEv.o].phase # "none"

\* the creation of an IncompleteShape has been rejected
C4_Witness ==
    /\ lastEv.kind = "create" /\ lastEv.cls = "IncompleteShape"
    /\ lastEv.outcome = "AbstractInstantiation"

\* the pure virtual functions of a hierarchy
Mandatory(h) == UNION {ClassTable[h][n].pure : n \in ClassNames(h)}

\* C5: on every existing object each mandatory operation (and every other
\* virtual function) resolves to an implementation, and no call, nested calls
\* included, reaches an unimplemented operation.
C5_MandatoryResolved ==
    /\ \A o \in Handles : objs[o].phase = "alive" =>
           \A op \in Mandatory(objs[o].h) \cup Ops(objs[o].h) :
               /\ Dispatch(objs[o], op).kind = "impl"
               /\ op \in ClassTable[objs[o].h][Dispatch(objs[o], op).cls].impl
    /\ IsCall =>
           /\ lastEv.outcome = "ok"
           /\ \A i \in 1..Len(lastEv.evs) : lastEv.evs[i].ev # "unresolved"

\* a mandatory operation has been called on a Rectangle
C5_Witness ==
    /\ lastEv.kind = "call" /\ lastEv.op = "getName" /\ lastEv.cls = "Rectangle"
    /\ lastEv.ret.str = "Rectangle"

\* C6: a call of an operation on an object resolves to the implementation that
\* an earlier call of the same operation on the same object resolved to,
\* whatever was created, called or destroyed in between.
C6_DispatchDeterminism ==
    (IsCall /\ pinned.o # 0 /\ lastEv.o = pinned.o /\ lastEv.op = pinned.op)
        => lastEv.impl = pinned.impl

\* a call repeated after another object was created and destroyed
C6_Witness ==
    /\ IsCall /\ pinned.o = 1 /\ lastEv.o = 1 /\ lastEv.op = pinned.op
    /\ pinned.made = 1
    /\ objs[2].phase = "dead"
    /\ objs[1].phase = "alive"

\* C7: area() on a Circle of radius 5.0 called through a Shape pointer runs
\* Circle::area and returns 3.14159 * 5 * 5 = 78.53975.
C7_CircleArea ==
    (lastEv.kind = "call" /\ lastEv.h = "iface" /\ lastEv.cls = "Circle"
        /\ lastEv.op = "area" /\ lastEv.f.radius = 5)
        => /\ lastEv.impl = "Circle"
           /\ lastEv.ret.num = 7853975
           /\ lastEv.ret.num = PiE5 * 5 * 5
           /\ lastEv.outcome = "ok"

\* area() has been called on a Circle of radius 5
C7_Witness ==
    /\ lastEv.kind = "call" /\ lastEv.h = "iface" /\ lastEv.cls = "Circle"
    /\ lastEv.op = "area" /\ lastEv.f.radius = 5
    /\ lastEv.ret.num > 0

----------------------------------------------------------------------------
(* Properties of BankAccount, checked under SpecBank *)

Abs(x) == IF x < 0 THEN 0 - x ELSE x

\* y is a value of the format at least as close to the exact number x as any other
Nearest(y, x) ==
    /\ IsRep(y)
    /\ \A z \in (-MaxFinite)..MaxFinite : IsRep(z) => Abs(y - x) <= Abs(z - x)

\* balance is prev + delta in exact arithmetic (infinite operands: the extended reals)
ExactlyChangedBy(prev, delta, new) ==
    IF prev.k = "fin" /\ delta.k = "fin"
    THEN new.k = "fin" /\ new.v = prev.v + delta.v
    ELSE prev.k # "nan" /\ delta.k # "nan" /\ new.k = "inf"
         /\ (prev.k = "inf" => new.v = prev.v) /\ (delta.k = "inf" => new.v = delta.v)

\* C8 as stated: withdraw(amount) returns true and decreases balance by exactly
\* amount iff 0 < amount <= balance; otherwise it returns false and leaves
\* balance unchanged.
C8_WithdrawExact ==
    bankOp.op = "withdraw" =>
        LET a == bankOp.amount
            p == bankOp.prev
            ok == FGt(a, Zero) /\ FLe(a, p)
        IN  /\ bankOp.ret <=> ok
            /\ ok => ExactlyChangedBy(p, FNeg(a), balance)
            /\ ~ok => balance = p

\* C8 amended: withdraw(amount) returns true iff 0 < amount <= balance; balance
\* then becomes balance - amount in double arithmetic: exactly that difference
\* when it is representable, else the nearest double (inf - finite = inf,
\* inf - inf = NaN), and never more than before; otherwise withdraw returns
\* false and leaves balance unchanged.
C8_WithdrawContract ==
    bankOp.op = "withdraw" =>
        LET a == bankOp.amount
            p == bankOp.prev
            ok == FGt(a, Zero) /\ FLe(a, p)
        IN  /\ bankOp.ret <=> ok
            /\ ~ok => balance = p
            /\ ok /\ p.k = "fin" =>
                   /\ balance.k = "fin"
                   /\ Nearest(balance.v, p.v - a.v)
                   /\ IsRep(p.v - a.v) => balance.v = p.v - a.v
                   /\ balance.v >= 0
            /\ ok /\ p.k = "inf" /\ a.k = "fin" => balance = PInf
            /\ ok /\ p.k = "inf" /\ a.k = "inf" => balance = NaN
            /\ ok => ~FGt(balance, p)

\* a withdrawal that succeeded and took exactly amount off the balance
C8_Witness ==
    /\ bankOp.op = "withdraw" /\ bankOp.ret
    /\ bankOp.prev.k = "fin" /\ balance.k = "fin"
    /\ balance.v = bankOp.prev.v - bankOp.amount.v
    /\ balance.v < bankOp.prev.v

\* C9 as stated: deposit(amount) increases balance by exactly amount when
\* amount > 0 and leaves balance unchanged when amount <= 0.
C9_DepositExact ==
    bankOp.op = "deposit" =>
        LET a == bankOp.amount
            p == bankOp.prev
        IN  /\ FGt(a, Zero) /\ p.k # "nan" => ExactlyChangedBy(p, a, balance)
            /\ FLe(a, Zero) => balance = p

\* C9 amended: deposit(amount) with amount > 0 sets balance to balance + amount
\* in double arithmetic: exactly that sum when it is representable, else the
\* nearest double, infinity on overflow (and NaN stays NaN); with amount <= 0
\* balance is unchanged.
C9_DepositContract ==
    bankOp.op = "deposit" =>
        LET a == bankOp.amount
            p == bankOp.prev
        IN  /\ FLe(a, Zero) => balance = p
            /\ FGt(a, Zero) /\ p.k = "fin" /\ a.k = "fin" =>
                   /\ IsRep(p.v + a.v) => balance = Fin(p.v + a.v)
                   /\ \/ balance.k = "fin" /\ Nearest(balance.v, p.v + a.v)
                      \/ balance = PInf /\ p.v + a.v > MaxFinite
                   /\ FGe(balance, p)
            /\ FGt(a, Zero) /\ p.k # "nan" /\ (p.k = "inf" \/ a.k = "inf") => balance = PInf
            /\ FGt(a, Zero) /\ p.k = "nan" => balance = NaN

\* a deposit of a positive amount that raised the balance by exactly amount
C9_Witness ==
    /\ bankOp.op = "deposit" /\ FGt(bankOp.amount, Zero)
    /\ bankOp.prev.k = "fin" /\ balance.k = "fin"
    /\ balance.v = bankOp.prev.v + bankOp.amount.v

\* C10: once constructed, a BankAccount has balance >= 0 after every sequence
\* of deposit and withdraw calls.
C10_BalanceNonNegative == Constructed => FGe(balance, Zero)

----------------------------------------------------------------------------
(* Properties of Employee, checked under SpecEmployee *)

\* C11: a setSalary(newSalary) with newSalary < 0 is rejected and leaves salary,
\* name and employeeID as they were; with newSalary >= 0 the stored salary is
\* exactly newSalary afterwards.  The call made by the constructor is held to
\* the same contract.
C11_SetSalaryContract ==
    empOp.op \in {"setSalary", "ctor"} =>
        /\ FLt(empOp.amount, Zero) =>
             /\ ~empOp.ok
             /\ salary = empOp.prev
             /\ empName = empOp.prevName
             /\ employeeID = empOp.prevID
        /\ FGe(empOp.amount, Zero) => empOp.ok /\ salary = empOp.amount

C11_Witness ==
    /\ empOp.op = "setSalary"
    /\ FLt(empOp.amount, Zero)
    /\ salary = empOp.prev
    /\ FGt(salary, Zero)

\* C12: in every state from the end of construction on, the stored salary is
\* >= 0, whatever the initial salary and whatever setSalary calls were made.
C12_SalaryNonNegative == EmpConstructed => FGe(salary, Zero)

----------------------------------------------------------------------------
(* Properties of Rectangle, checked under SpecRect *)

\* C13: once constructed (both members 0 if either argument was negative), and
\* after any setLength / setBreadth calls, length >= 0 and breadth >= 0; a
\* setter called with a negative value leaves both members as they were.
C13_RectNonNegative ==
    RectConstructed =>
        /\ length >= 0
        /\ breadth >= 0
        /\ (rectOp.op = "ctor" /\ (rectOp.len < 0 \/ rectOp.brth < 0))
             => (length = 0 /\ breadth = 0)
        /\ (rectOp.op = "setLength" /\ rectOp.len < 0)
             => (length = rectOp.prevLength /\ breadth = rectOp.prevBreadth)
        /\ (rectOp.op = "setBreadth" /\ rectOp.brth < 0)
             => (length = rectOp.prevLength /\ breadth = rectOp.prevBreadth)

C13_Witness ==
    /\ rectOp.op = "setLength"
    /\ rectOp.len < 0
    /\ length = rectOp.prevLength
    /\ length > 0
    /\ breadth > 0

----------------------------------------------------------------------------
(* Properties of the lifetime programs, checked under SpecLife *)

IsPrefix(s, t) == Len(s) <= Len(t) /\ s = SubSeq(t, 1, Len(s))

\* the constructor ("ctor") or destructor ("dtor") bodies run on obj so far,
\* each as <<class, subobject>>
RECURSIVE BodiesOf(_, _, _)
BodiesOf(evs, obj, kind) ==
    IF Len(evs) = 0 THEN <<>>
    ELSE LET e == Head(evs)
         IN  (IF e.ev = kind /\ e.obj = obj THEN <<<<e.cls, e.path>>>> ELSE <<>>)
                 \o BodiesOf(Tail(evs), obj, kind)

ClassesOf(bodies) == [i \in 1..Len(bodies) |-> bodies[i][1]]

\* the destructor bodies and the releases of storage of obj so far
RECURSIVE Destruction(_, _)
Destruction(evs, obj) ==
    IF Len(evs) = 0 THEN <<>>
    ELSE LET e == Head(evs)
         IN  (IF e.obj = obj /\ e.ev = "dtor" THEN <<<<"dtor", e.cls>>>>
              ELSE IF e.obj = obj /\ e.ev = "free" THEN <<<<"free", e.op>>>>
              ELSE <<>>)
                 \o Destruction(Tail(evs), obj)

\* the lines printed by a program so far
RECURSIVE LifeOuts(_)
LifeOuts(evs) ==
    IF Len(evs) = 0 THEN <<>>
    ELSE (IF Head(evs).ev = "out" THEN <<Head(evs).text>> ELSE <<>>) \o LifeOuts(Tail(evs))

Owned(obj) == {a \in lifeHeap : a.owner = obj}

DestructorsDone(obj) == LifeObj(obj).state \in {"destroyed", "freed"}

\* C14: when the DerivedVirtual object is deleted through the BaseVirtual
\* pointer, the DerivedVirtual destructor runs first and releases the heap int,
\* then the BaseVirtual destructor runs; afterwards none of its allocations
\* is live.
C14_VirtualDelete ==
    LET d == Destruction(lifeTrace["dtor"], "ptr2")
        all == << <<"dtor", "DerivedVirtual">>, <<"free", "data">>,
                  <<"dtor", "BaseVirtual">>, <<"free", "object">> >>
    IN  /\ IsPrefix(d, all)
        /\ LifeObj("ptr2").state = "freed" => (d = all /\ Owned("ptr2") = {})
        /\ lifePc["dtor"] > 7 /\ lifeTodo["dtor"] = <<>> => LifeObj("ptr2").state = "freed"

C14_Witness ==
    /\ LifeObj("ptr2").static = "BaseVirtual"
    /\ LifeObj("ptr2").state = "freed"
    /\ Owned("ptr2") = {}
    /\ ClassesOf(BodiesOf(lifeTrace["dtor"], "ptr2", "dtor")) = <<"DerivedVirtual", "BaseVirtual">>

\* C15: when the DerivedNonVirtual object is deleted through the
\* BaseNonVirtual pointer, only the BaseNonVirtual destructor runs: the
\* DerivedNonVirtual destructor is never executed, and the int it allocated is
\* still allocated when main has ended.
C15_NonVirtualDeleteLeaks ==
    LET dtors == ClassesOf(BodiesOf(lifeTrace["dtor"], "ptr1", "dtor"))
    IN  /\ IsPrefix(dtors, <<"BaseNonVirtual">>)
        /\ LifeObj("ptr1").state \in {"alive", "destroying", "destroyed", "freed"}
             => Alloc("ptr1", "data", 10) \in lifeHeap
        /\ lifeExit["dtor"] # -1
             => (dtors = <<"BaseNonVirtual">> /\ Alloc("ptr1", "data", 10) \in lifeHeap)

C15_Witness ==
    /\ lifeExit["dtor"] = 0
    /\ LifeObj("ptr1").static = "BaseNonVirtual"
    /\ LifeObj("ptr1").state = "freed"
    /\ Alloc("ptr1", "data", 10) \in lifeHeap
    /\ ClassesOf(BodiesOf(lifeTrace["dtor"], "ptr1", "dtor")) = <<"BaseNonVirtual">>

\* C16: the construction of the virtual-diamond TeachingAssistant runs the
\* Person constructor exactly once, and the constructor bodies run in the
\* order Person, Student, Teacher, TeachingAssistant.
C16_DiamondCtorOrder ==
    LET ctors == ClassesOf(BodiesOf(lifeTrace["diamond"], "ta", "ctor"))
        all == <<"Person", "Student", "Teacher", "TeachingAssistant">>
    IN  /\ IsPrefix(ctors, all)
        /\ LifeObj("ta").state \in {"alive", "destroying", "destroyed"}
             => /\ ctors = all
                /\ Cardinality({i \in 1..Len(ctors) : ctors[i] = "Person"}) = 1

C16_Witness ==
    /\ LifeObj("ta").state = "alive"
    /\ ClassesOf(BodiesOf(lifeTrace["diamond"], "ta", "ctor"))
         = <<"Person", "Student", "Teacher", "TeachingAssistant">>

ReverseOfConstruction(p, obj) ==
    LET ctors == BodiesOf(lifeTrace[p], obj, "ctor")
        dtors == BodiesOf(lifeTrace[p], obj, "dtor")
    IN  /\ Len(dtors) > 0 => IsPrefix(dtors, SeqRev(ctors))
        /\ DestructorsDone(obj) => dtors = SeqRev(ctors)

CarOutput ==
    <<"Engine constructed.", "Car Sedan created.", "Engine starting...", "Driving Sedan",
      "Engine stopping...", "Car Sedan destroyed.", "Engine destroyed.">>

----------------------------------------------------------------------------
(* Properties of Complex, checked under SpecComplex *)

----------------------------------------------------------------------------
(* Termination of the drivers, checked under SpecLife *)

----------------------------------------------------------------------------
(* Inherited operations, checked under Spec *)

\* the implementations entered by a call, in order, each as <<class, operation>>
CallsOf(evs) ==
    LET calls == SelectSeq(evs, LAMBDA e : e.ev = "call")
    IN  [i \in 1..Len(calls) |-> <<calls[i].cls, calls[i].op>>]

\* C22: an operation invoked on an object whose own class does not define it
\* (displayColor on a Circle or Square of the abstract hierarchy, draw on a
\* Circle or Rectangle of the pure-interface hierarchy) runs the nearest
\* ancestor's implementation, Shape's, and every virtual operation that
\* implementation calls in turn (getName, area) runs the implementation of the
\* object's most derived class.
C22_InheritedLookup ==
    (lastEv.kind = "call" /\ lastEv.op \notin ClassTable[lastEv.h][lastEv.cls].impl) =>
        /\ lastEv.outcome = "ok"
        /\ lastEv.impl = "Shape"
        /\ lastEv.impl = Parent(lastEv.h, lastEv.cls)
        /\ lastEv.h \in {"iface", "abstract"}
        /\ (lastEv.h = "abstract") =>
             /\ lastEv.op = "displayColor"
             /\ CallsOf(lastEv.evs) = << <<"Shape", "displayColor">> >>
        /\ (lastEv.h = "iface") =>
             /\ lastEv.op = "draw"
             /\ CallsOf(lastEv.evs) = << <<"Shape", "draw">>, <<lastEv.cls, "getName">>,
                                         <<lastEv.cls, "area">> >>

\* draw has been called on a Rectangle of the pure-interface hierarchy and
\* ran Shape::draw, Rectangle::getName and Rectangle::area
C22_Witness ==
    /\ lastEv.kind = "call" /\ lastEv.h = "iface" /\ lastEv.cls = "Rectangle"
    /\ lastEv.op = "draw" /\ lastEv.impl = "Shape"
    /\ CallsOf(lastEv.evs) = << <<"Shape", "draw">>, <<"Rectangle", "getName">>,
                                <<"Rectangle", "area">> >>

----------------------------------------------------------------------------
(* Properties of the hybrid inheritance, checked under SpecHybrid *)

\* the subobjects of the TeachingAssistant that hold a name and an age
PersonParts == {p \in DOMAIN ta : "name" \in DOMAIN ta[p]}

OtherVia(via) == IF via = "Student" THEN "Teacher" ELSE "Student"

\* C23: in the non-virtual diamond the TeachingAssistant holds two separate
\* Person subobjects, one through Student and one through Teacher; right after
\* the construction with (n, a, id, s, h) both hold name = n and age = a; a
\* later write to the name or age of one copy stores the value there and
\* leaves the other copy as it was.
C23_TwoPersonCopies ==
    TAMade =>
        /\ Cardinality(PersonParts) = 2
        /\ PersonParts = {PersonOf("Student"), PersonOf("Teacher")}
        /\ taOp.op = "ctor" =>
             \A via \in Vias : ta[PersonOf(via)] = [name |-> taOp.n, age |-> taOp.a]
        /\ taOp.op = "write" =>
             /\ ta[PersonOf(OtherVia(taOp.via))] = taOp.prev[PersonOf(OtherVia(taOp.via))]
             /\ taOp.member = "name" => ta[PersonOf(taOp.via)].name = taOp.n
             /\ taOp.member = "age" => ta[PersonOf(taOp.via)].age = taOp.a

\* the name of the copy reached through Student has been overwritten and the
\* copy reached through Teacher still holds the name given at construction
C23_Witness ==
    /\ TAMade
    /\ taOp.op = "write" /\ taOp.via = "Student" /\ taOp.member = "name"
    /\ ta[PersonOf("Student")].name = "Jane Roe"
    /\ ta[PersonOf("Teacher")].name = "John Doe"
    /\ taOp.prev[PersonOf("Student")].name = "John Doe"

----------------------------------------------------------------------------
(* The shared Person of the virtual diamond, checked under SpecLife *)

\* the line printed by the call of op on obj in transcript tr is text, for
\* every such call made so far
Prints(tr, obj, op, text) ==
    \A i \in 1..Len(tr) :
        (tr[i].ev = "call" /\ tr[i].obj = obj /\ tr[i].op = op) =>
            (i < Len(tr) /\ tr[i + 1].ev = "out" /\ tr[i + 1].text = text)

\* C24: the virtual-diamond TeachingAssistant holds one shared Person: its
\* constructor runs once, with the name TeachingAssistant's own initializer
\* Person(n) passes, and greet(), study(), teach() and assist() all observe
\* that one name, also after the Student and Teacher constructors have run.
C24_SharedPersonName ==
    LET tr == lifeTrace["diamond"]
        n == MainDiamond[1].args.n
        persons == SelectSeq(BodiesOf(tr, "ta", "ctor"), LAMBDA b : b[1] = "Person")
    IN  /\ n = "Alice"
        /\ Len(persons) <= 1
        /\ LifeObj("ta").state \in {"constructing", "alive", "destroying"} /\ Len(persons) = 1
             => LifeObj("ta").f.name = n
        /\ Prints(tr, "ta", "greet", "Hello, I am " \o n \o ".")
        /\ Prints(tr, "ta", "study", n \o " (ID: 101) is studying.")
        /\ Prints(tr, "ta", "teach", n \o " (Subject: Math) is teaching.")
        /\ Prints(tr, "ta", "assist", n \o " is assisting for 20 hours/week.")

\* the four member functions have been called on the TeachingAssistant
C24_Witness ==
    /\ LifeObj("ta").state = "alive"
    /\ LifeObj("ta").f.name = "Alice"
    /\ \E i \in 1..Len(lifeTrace["diamond"]) :
           /\ lifeTrace["diamond"][i].ev = "call"
           /\ lifeTrace["diamond"][i].op = "assist"
    /\ \E i \in 1..Len(lifeTrace["diamond"]) :
           /\ lifeTrace["diamond"][i].ev = "call"
           /\ lifeTrace["diamond"][i].op = "greet"

----------------------------------------------------------------------------
(* The vptr during construction, checked under Spec *)

----------------------------------------------------------------------------
(* Properties of Printer, checked under SpecPrinter *)

\* the overload the claim names for a static type
NamedOverload(type) ==
    CASE type = "int" -> "int"
      [] type = "double" -> "double"
      [] type \in {"literal", "string"} -> "string"

\* C26: the overload of Printer::print that runs is selected by the static
\* type of the argument alone: an int argument runs the integer overload, a
\* double argument the double overload, a string argument (a literal or a
\* std::string) the string overload, whatever the value and whatever calls
\* were made before.
C26_OverloadByStaticType ==
    \A k \in 1..Len(printed) :
        /\ printed[k].overload = NamedOverload(printed[k].arg.type)
        /\ printed[k].arg.type = "int"
             => printed[k].text = "Printing an integer: " \o ToString(printed[k].arg.i)
        /\ printed[k].arg.type = "double"
             => /\ printed[k].arg.e5 = 314159
                      => printed[k].text = "Printing a double: 3.14159"
                /\ printed[k].arg.e5 = 10000000
                      => printed[k].text = "Printing a double: 100"
        /\ \A m \in 1..Len(printed) :
               printed[m].arg.type = printed[k].arg.type
                   => printed[m].overload = printed[k].overload

\* the calls of main, with 100.0 for 3.14159: the same value 100 runs the
\* integer overload as an int and the double overload as a double
C26_Witness ==
    /\ Len(printed) = 3
    /\ printed[1].arg = Arg("int", 100, 0, "") /\ printed[1].overload = "int"
    /\ printed[2].arg = Arg("double", 0, 10000000, "") /\ printed[2].overload = "double"
    /\ printed[2].text = "Printing a double: 100"
    /\ printed[3].arg.type = "literal" /\ printed[3].overload = "string"
    /\ printed[3].text = "Printing a string: \"Hello, C++!\""

----------------------------------------------------------------------------
(* The release of the shapes of the pure-interface main, checked under SpecMain *)

\* the positions of the transcript where delete is applied to hd
DeletesOf(d, hd) == {i \in 1..Len(trace[d]) : trace[d][i].ev = "delete" /\ trace[d][i].obj = hd}

\* the shapes main allocates with new
HeapShapes == {MainIface[l].hd : l \in {l \in DOMAIN MainIface : MainIface[l].kind = "new"}}

\* C27: in the main of the abstract Shape with draw, area and getName, no
\* shape is deleted more than once, no operation is invoked on a shape after
\* its deletion, and every shape allocated with new has been deleted when
\* main has returned.
C27_ShapesReleasedOnce ==
    LET tr == trace["iface"]
    IN  /\ \A hd \in HeapShapes : Cardinality(DeletesOf("iface", hd)) <= 1
        /\ \A i \in 1..Len(tr) : tr[i].ev # "ub"
        /\ \A i \in 1..Len(tr) : \A j \in 1..Len(tr) :
               (tr[i].ev = "delete" /\ tr[j].ev = "call" /\ tr[j].obj = tr[i].obj) => j < i
        /\ Done("iface") =>
               /\ HeapShapes = {"new1", "new2", "new3"}
               /\ \A hd \in HeapShapes :
                      /\ mainHeap[hd].phase = "dead"
                      /\ Cardinality(DeletesOf("iface", hd)) = 1

\* main has returned after drawing one shape and deleting all three
C27_Witness ==
    /\ Done("iface")
    /\ \A hd \in {"new1", "new2", "new3"} : mainHeap[hd].phase = "dead"
    /\ \E i \in 1..Len(trace["iface"]) :
           trace["iface"][i].ev = "call" /\ trace["iface"][i].obj = "new1"

----------------------------------------------------------------------------
(* The Engine of the Car, checked under SpecLife *)

\* the positions of the transcript of the Car program where line was printed
Printed(line) ==
    {i \in 1..Len(lifeTrace["car"]) :
        lifeTrace["car"][i].ev = "out" /\ lifeTrace["car"][i].text = line}

\* the positions where a member function of Engine is entered
EngineCalls ==
    {k \in 1..Len(lifeTrace["car"]) :
        lifeTrace["car"][k].ev = "call" /\ lifeTrace["car"][k].cls = "Engine"}

\* C28: in the Car program Engine::start and Engine::stop are entered only
\* while the Engine member is alive, after "Engine constructed." and before
\* "Engine destroyed.": the start() made by drive() and the stop() made by
\* Car's destructor, which runs before the Engine's.
C28_EngineAliveWhenCalled ==
    LET tr == lifeTrace["car"]
        ops == [k \in EngineCalls |-> tr[k].op]
    IN  /\ \A k \in EngineCalls :
               /\ tr[k].op \in {"start", "stop"}
               /\ \E i \in Printed("Engine constructed.") : i < k
               /\ \A j \in Printed("Engine destroyed.") : k < j
               /\ \A j \in 1..Len(tr) : (tr[j].ev = "dtor" /\ tr[j].cls = "Engine") => k < j
        /\ lifeExit["car"] = 0 =>
               /\ {ops[k] : k \in EngineCalls} = {"start", "stop"}
               /\ Cardinality(EngineCalls) = 2
               /\ \E k \in EngineCalls : \E c \in 1..Len(tr) :
                      /\ tr[k].op = "stop"
                      /\ tr[c].ev = "dtor" /\ tr[c].cls = "Car" /\ c < k

\* the Car program has ended: stop() was called from Car's destructor and the
\* Engine was destroyed afterwards
C28_Witness ==
    /\ lifeExit["car"] = 0
    /\ Printed("Engine destroyed.") # {}
    /\ \E k \in EngineCalls : lifeTrace["car"][k].op = "stop"
    /\ \E k \in EngineCalls : lifeTrace["car"][k].op = "start"

----------------------------------------------------------------------------
(* Conservation of the BankAccount balance, checked under SpecBank *)

\* the calls that count: a deposit of an amount > 0, a withdrawal that returned true
Accepted(call) ==
    \/ call.op = "deposit" /\ FGt(call.amount, Zero)
    \/ call.op = "withdraw" /\ call.ret

\* the initial balance as the constructor clamps it
ClampedInitial(calls) == IF FGe(calls[1].amount, Zero) THEN calls[1].amount ELSE Zero

\* the sum, in exact arithmetic, of the amounts of the accepted calls of kind op
RECURSIVE ExactSum(_, _)
ExactSum(calls, op) ==
    IF Len(calls) = 0 THEN 0
    ELSE (IF Head(calls).op = op /\ Accepted(Head(calls)) THEN Head(calls).amount.v ELSE 0)
             + ExactSum(Tail(calls), op)

AllFinite(calls) == \A i \in 1..Len(calls) : calls[i].amount.k = "fin"

RECURSIVE Replay(_)
Replay(calls) ==
    IF Len(calls) = 1 THEN ClampedInitial(calls)
    ELSE LET before == Replay(SubSeq(calls, 1, Len(calls) - 1))
             last == calls[Len(calls)]
         IN  IF ~Accepted(last) THEN before
             ELSE IF last.op = "deposit" THEN FAdd(before, last.amount)
             ELSE FSub(before, last.amount)

----------------------------------------------------------------------------
(* Properties of the friends, checked under SpecFriend *)

\* C30: the friend accessors only read: after any number of
\* Engine::checkFuel(myCar) calls the fuel of the Car is still 50 and every
\* call has printed 50; after any number of revealSecret(box) calls the
\* caller's SecretBox still holds the secretCode 1234 and every call has
\* printed 1234.
C30_FriendsOnlyRead ==
    /\ myCar.made => myCar.fuel = 50
    /\ box.made => box.secretCode = 1234
    /\ \A i \in 1..Len(friendLog) :
           /\ friendLog[i].fn = "checkFuel" => friendLog[i].out = "Fuel level: 50"
           /\ friendLog[i].fn = "revealSecret" => friendLog[i].out = "Secret code is: 1234"

\* both accessors have been called more than once
C30_Witness ==
    /\ Cardinality({i \in 1..Len(friendLog) : friendLog[i].fn = "checkFuel"}) >= 2
    /\ Cardinality({i \in 1..Len(friendLog) : friendLog[i].fn = "revealSecret"}) >= 2
    /\ myCar.fuel = 50
    /\ box.secretCode = 1234

=============================================================================
